---- MODULE Spec2Model ----
(***************************************************************************)
(* Push-pull reactive graph of forge: graph signals, computed (Derived)    *)
(* values, effects, the BatchQueue and the signalReactive strategy.        *)
(*                                                                         *)
(* The user program (which nodes exist and what each function reads) is a  *)
(* small fixed table chosen in Init (prog, mode).  Every public operation  *)
(* (set, get, batch enter/exit, createEffect, dispose) is one action that  *)
(* runs the whole synchronous call tree of the source, threading a record  *)
(* S of the program state through operators named after the functions.     *)
(***************************************************************************)
EXTENDS Integers, Sequences, FiniteSets, TLC

\* ---- bounds of the model ----
MaxVal == 1
MaxWrites == 2
MaxDepth == 2
\* calls of enqueue for one callback inside one outermost batch
MaxEnqueues == 2

\* ---- program constants ----
CLEAN == 0
CHECK == 1
DIRTY == 2
MAX_ITERATIONS == 100
\* MAX_ITERATIONS of createSignal.notify
SignalMaxIterations == 100
\* the loops of at most 101 iterations are unrolled as 2^LoopDoublings steps
LoopDoublings == 7
MaxInt32 == 2147483647
MinInt32 == (-2147483647) - 1

NN == 6
Nodes == 1..NN
Null == 0
Undef == -1

Progs == {"diamond", "chain", "equal", "cycle", "throwing", "selfdispose", "subs", "queue"}
\* programs whose effect bodies write to signals or choose what they read
WriterProgs == {"selfwrite", "cascade", "relay", "dynamic"}
Modes == {"strategy", "primitive", "queue"}

\* ---- the user programs: what each node is and what its function reads ----
\* diamond: 1 source; 2 left = s+1; 3 right = s*2; 4 combined = left+right;
\*          5 effect reads left, right; 6 effect reads combined.
\* chain:   1 source; 5 source; 2 a = s1+1; 3 b = a+1; 4 effect reads b, then
\*          s1, then s5 (paths of length 3 and 1 from source 1).
\* equal:   1 source; 5 source; 2 = s1*s5; 3 = s1+s5 with a custom equals
\*          (same value of x div 2); 4 = (node 2)+1; 6 effect reads 4 and 3.
\* cycle:   1 source; 2 a reads b; 3 b reads a; 4 = s+1; 5 effect reads s
\*          (returns a cleanup); 6 effect reads 4 then a.
\* throwing: 1 source; 5 effect reads s and throws when it is 1 (returns a
\*          cleanup otherwise); 6 effect reads s twice.
\* selfdispose: 1 source; 5 source; 6 effect reads s1, calls dispose() on its
\*          own handle when s1 is 1, then reads s5 (returns a cleanup).
\* subs:    1, 2, 3 sources with direct subscribers (see Subscribers).
\* queue:   no node: a BatchQueue used directly with the callbacks Callbacks.
\* selfwrite: 1 source count; 5 effect: v = count.get(); if (v < 2)
\*          count.set(v + 1).
\* cascade: 1 source; 2 signal derived; 5 effect: derived.set(source.get() * 10);
\*          6 effect reads derived.
\* relay:   1 source a; 2 source b; 5 effect: b.set(a.get());
\*          6 effect: v = b.get(); a.set(v < 2 ? v + 1 : 2).
\* pingpong: 1 source a; 2 source b; 5 effect: b.set(a.get() + 1);
\*          6 effect: a.set(b.get() + 1)  (never converges).
\* feedback: 1 source s; 2 computed d = s + 1; 5 effect: v = d.get();
\*          if (v < 2) s.set(v); 6 effect reads d.
\* nested:  1 source outer; 2 source inner; 3 source aux; 4 computed c =
\*          aux + 1; 5 effect: outer.get(); untracked(() => c.get());
\*          const h = createEffect(6); return () => h.dispose();
\*          6 effect reads inner and throws when it is 1.  Node 6 stands for
\*          the inner effect object that is live at the time.
\* dynamic: 1 source toggle; 2 source a; 3 source b; 4 computed and 5 effect,
\*          each: toggle.get() ? b.get() : a.get().
Kind(p, n) ==
  CASE p = "diamond" -> <<"source", "computed", "computed", "computed", "effect", "effect">>[n]
    [] p = "chain"   -> <<"source", "computed", "computed", "effect", "source", "none">>[n]
    [] p = "equal"   -> <<"source", "computed", "computed", "computed", "source", "effect">>[n]
    [] p = "cycle"   -> <<"source", "computed", "computed", "computed", "effect", "effect">>[n]
    [] p = "throwing" -> <<"source", "none", "none", "none", "effect", "effect">>[n]
    [] p = "selfdispose" -> <<"source", "none", "none", "none", "source", "effect">>[n]
    [] p = "subs"    -> <<"source", "source", "source", "none", "none", "none">>[n]
    [] p = "queue"   -> "none"
    [] p = "selfwrite" -> <<"source", "none", "none", "none", "effect", "none">>[n]
    [] p = "cascade" -> <<"source", "source", "none", "none", "effect", "effect">>[n]
    [] p = "relay" -> <<"source", "source", "none", "none", "effect", "effect">>[n]
    [] p = "pingpong" -> <<"source", "source", "none", "none", "effect", "effect">>[n]
    [] p = "feedback" -> <<"source", "computed", "none", "none", "effect", "effect">>[n]
    [] p = "nested" -> <<"source", "source", "source", "computed", "effect", "effect">>[n]
    [] p = "dynamic" -> <<"source", "source", "source", "computed", "effect", "none">>[n]

\* a read whose target depends on the first value read: a (node 2) after 0,
\* b (node 3) otherwise
Choice == NN + 1
Resolve(r, seen) == IF r # Choice THEN r ELSE IF seen[1] = 0 THEN 2 ELSE 3
Targets(r) == IF r = Choice THEN {2, 3} ELSE {r}

Reads(p, n) ==
  CASE p = "diamond" -> << <<>>, <<1>>, <<1>>, <<2, 3>>, <<2, 3>>, <<4>> >>[n]
    [] p = "chain"   -> << <<>>, <<1>>, <<2>>, <<3, 1, 5>>, <<>>, <<>> >>[n]
    [] p = "equal"   -> << <<>>, <<1, 5>>, <<1, 5>>, <<2>>, <<>>, <<4, 3>> >>[n]
    [] p = "cycle"   -> << <<>>, <<3>>, <<2>>, <<1>>, <<1>>, <<4, 2>> >>[n]
    [] p = "throwing" -> << <<>>, <<>>, <<>>, <<>>, <<1>>, <<1, 1>> >>[n]
    [] p = "selfdispose" -> << <<>>, <<>>, <<>>, <<>>, <<>>, <<1, 5>> >>[n]
    [] p = "selfwrite" -> << <<>>, <<>>, <<>>, <<>>, <<1>>, <<>> >>[n]
    [] p = "cascade" -> << <<>>, <<>>, <<>>, <<>>, <<1>>, <<2>> >>[n]
    [] p = "relay" -> << <<>>, <<>>, <<>>, <<>>, <<1>>, <<2>> >>[n]
    [] p = "pingpong" -> << <<>>, <<>>, <<>>, <<>>, <<1>>, <<2>> >>[n]
    [] p = "feedback" -> << <<>>, <<1>>, <<>>, <<>>, <<2>>, <<2>> >>[n]
    [] p = "nested" -> << <<>>, <<>>, <<>>, <<3>>, <<1, 4>>, <<2>> >>[n]
    [] p = "dynamic" -> << <<>>, <<>>, <<>>, <<1, Choice>>, <<1, Choice>>, <<>> >>[n]
    [] OTHER         -> <<>>

Fn(p, n) ==
  CASE p = "diamond" -> <<"id", "inc", "dbl", "sum", "id", "id">>[n]
    [] p = "chain"   -> <<"id", "inc", "inc", "id", "id", "id">>[n]
    [] p = "equal"   -> <<"id", "mul", "sum", "inc", "id", "id">>[n]
    [] p = "cycle"   -> <<"id", "id", "id", "inc", "id", "id">>[n]
    [] p = "dynamic" -> <<"id", "id", "id", "snd", "id", "id">>[n]
    [] p = "feedback" -> <<"id", "inc", "id", "id", "id", "id">>[n]
    [] p = "nested" -> <<"id", "id", "id", "inc", "id", "id">>[n]
    [] OTHER         -> "id"

\* the signal.set(v) an effect body makes after its reads: [s, v], or s = Null
NoWrite == [s |-> Null, v |-> Undef]
BodyWrite(p, n, seen) ==
  CASE p = "selfwrite" /\ n = 5 -> IF seen[1] < 2 THEN [s |-> 1, v |-> seen[1] + 1] ELSE NoWrite
    [] p = "cascade" /\ n = 5 -> [s |-> 2, v |-> seen[1] * 10]
    [] p = "relay" /\ n = 5 -> [s |-> 2, v |-> seen[1]]
    [] p = "relay" /\ n = 6 -> [s |-> 1, v |-> IF seen[1] < 2 THEN seen[1] + 1 ELSE 2]
    [] p = "pingpong" /\ n = 5 -> [s |-> 2, v |-> seen[1] + 1]
    [] p = "pingpong" /\ n = 6 -> [s |-> 1, v |-> seen[1] + 1]
    [] p = "feedback" /\ n = 5 -> IF seen[1] < 2 THEN [s |-> 1, v |-> seen[1]] ELSE NoWrite
    [] OTHER -> NoWrite

EqualsOpt(p, n) == IF p = "equal" /\ n = 3 THEN "half" ELSE "is"

ReturnsCleanup(p, n) == Kind(p, n) = "effect" /\ (n = 5 \/ p = "selfdispose")

\* the effect body throws after its reads (the values it read are seen)
BodyThrows(p, n, seen) ==
  \/ p = "throwing" /\ n = 5 /\ seen = <<1>>
  \/ p = "nested" /\ n = 6 /\ seen = <<1>>

\* the reads of the body that are wrapped in untracked(() => ...)
UntrackedReads(p, n) == IF p = "nested" /\ n = 5 THEN {2} ELSE {}

\* the effect the body creates after its reads and its cleanup disposes
InnerOf(p, n) == IF p = "nested" /\ n = 5 THEN 6 ELSE Null
InnerEffects(p) == IF p = "nested" THEN {6} ELSE {}

\* the effect body calls handle.dispose() on itself before its i-th read
DisposesSelf(p, n, i, seen) == p = "selfdispose" /\ n = 6 /\ i = 2 /\ seen = <<1>>

\* the direct subscribers of a source, in subscription order:
\*   "log"   records the value it is called with
\*   "inc"   calls set(v + 1) on the signal, always
\*   "conv"  calls set(v + 1) while v < ConvergeAt
\*   "throw" throws
ConvergeAt == 3

Subscribers(p, n) ==
  IF p = "subs" THEN << <<"inc", "log">>, <<"log", "conv", "log">>, <<"log", "throw", "log">>,
                        <<>>, <<>>, <<>> >>[n]
  ELSE IF Kind(p, n) = "source" /\ n = 1 THEN <<"log">> ELSE <<>>

\* callbacks a program enqueues in a BatchQueue of its own, and what each throws
Callbacks == {"cbA", "cbB", "cbC"}

CallbackThrows(f) == CASE f = "cbA" -> "errA" [] f = "cbB" -> "errB" [] OTHER -> "none"

\* the computeds the user's top-level code reads with get() / peek()
TopGets(p) ==
  CASE p = "diamond" -> {4} [] p = "chain" -> {3} [] p = "equal" -> {3, 4} [] p = "cycle" -> {2, 4}
    [] p = "dynamic" -> {4} [] p = "feedback" -> {2} [] p = "nested" -> {4}
    [] OTHER -> {}

TopPeeks(p) ==
  CASE p = "diamond" -> {2} [] p = "chain" -> {2} [] p = "equal" -> {2} [] p = "cycle" -> {3}
    [] p = "dynamic" -> {4} [] p = "feedback" -> {2} [] p = "nested" -> {4}
    [] OTHER -> {}

\* versions source 1 may have at the start (see Init)
InitVersions(p) == IF p = "chain" THEN {0, MaxInt32 - 1} ELSE {0}

Apply(f, vals) ==
  CASE f = "inc" -> vals[1] + 1
    [] f = "dbl" -> 2 * vals[1]
    [] f = "sum" -> vals[1] + vals[2]
    [] f = "mul" -> vals[1] * vals[2]
    [] f = "snd" -> vals[2]
    [] OTHER     -> vals[1]

\* Object.is on the modelled numbers, or the custom predicate of the option
Equals(eq, a, b) == IF eq = "half" THEN (a \div 2) = (b \div 2) ELSE a = b

VARIABLES prog, mode,
          value, initialized, state, version, sources, sourcesVersions,
          observers, computing, created, handle, disposed, cleanup,
          currentConsumer, trackingStack,
          depth, bqPending, pendingEffects, flushing,
          notifying, dirtyFlag,
          writes, log, lastOp, lastErr, fnRuns, fnDone, lastRet, enqueued,
          vnode, vnodeEl, childNodesMap, parentEl, childNodes, attributes,
          listeners, eventHandlers, nextWrapper, nextNode, domOps, mounted, patches,
          domErr, oldKeys, newKeys, diffOps, diffed, oldIndices, sequence

\* the arguments and the result of a diffKeys call, of a getSequence call
diffVars == <<oldKeys, newKeys, diffOps, diffed, oldIndices, sequence>>

\* the reconciler's part of the state: the tree v, its DOM fields and the
\* live surface
domVars == <<vnode, vnodeEl, childNodesMap, parentEl, childNodes, attributes,
             listeners, eventHandlers, nextWrapper, nextNode, domOps, mounted,
             patches, domErr>>

vars == <<prog, mode, value, initialized, state, version, sources,
          sourcesVersions, observers, computing, created, handle, disposed,
          cleanup, currentConsumer, trackingStack, depth, bqPending,
          pendingEffects, flushing, notifying, dirtyFlag,
          writes, log, lastOp, lastErr, fnRuns, fnDone, lastRet, enqueued,
          vnode, vnodeEl, childNodesMap, parentEl, childNodes, attributes,
          listeners, eventHandlers, nextWrapper, nextNode, domOps, mounted, patches,
          domErr, oldKeys, newKeys, diffOps, diffed>>


\* ---- the threaded program state ----
Pack ==
  [prog |-> prog, mode |-> mode, value |-> value, initialized |-> initialized,
   state |-> state, version |-> version, sources |-> sources,
   sourcesVersions |-> sourcesVersions, observers |-> observers,
   computing |-> computing, disposed |-> disposed, cleanup |-> cleanup,
   currentConsumer |-> currentConsumer, trackingStack |-> trackingStack,
   depth |-> depth, bqPending |-> bqPending, pendingEffects |-> pendingEffects,
   flushing |-> flushing, notifying |-> notifying, dirtyFlag |-> dirtyFlag,
   fnRuns |-> fnRuns, fnDone |-> fnDone, lastRet |-> lastRet, handle |-> handle,
   iterations |-> [n \in Nodes |-> 0], looping |-> [n \in Nodes |-> FALSE],
   err |-> "none", ret |-> Undef, log |-> <<>>, inGet |-> 0, inExec |-> 0,
   hooks |-> <<>>, bodies |-> <<>>, flushIterations |-> 0, flushLooping |-> FALSE]

\* one entry of the per-operation event log (observation only): d, g, x are
\* the batch depth and the nesting of get()/peek() and of execute() calls
Ev(S, t, n, seen, truth) ==
  [S EXCEPT !.log = Append(S.log,
     [t |-> t, n |-> n, seen |-> seen, truth |-> truth,
      d |-> S.depth, g |-> S.inGet, x |-> S.inExec])]

Throw(S, e) == [S EXCEPT !.err = e]

SeqToSet(q) == {q[i] : i \in 1..Len(q)}
Max(A) == CHOOSE x \in A : \A y \in A : y <= x

IndexOf(q, x) ==
  IF x \in SeqToSet(q) THEN CHOOSE i \in 1..Len(q) : q[i] = x /\ \A j \in 1..(i-1) : q[j] # x
  ELSE 0

\* Set.add on an insertion-ordered Set
SetAdd(q, x) == IF x \in SeqToSet(q) THEN q ELSE Append(q, x)

\* ---- reactive-node.ts ----
StartTracking(S, consumer) ==
  [S EXCEPT !.trackingStack = Append(S.trackingStack, S.currentConsumer),
            !.currentConsumer = consumer]

EndTracking(S, consumer) ==
  IF Len(S.trackingStack) = 0
  THEN [S EXCEPT !.currentConsumer = Null]
  ELSE [S EXCEPT !.currentConsumer = S.trackingStack[Len(S.trackingStack)],
                 !.trackingStack = SubSeq(S.trackingStack, 1, Len(S.trackingStack) - 1)]

\* mutant: the existence check of the auxiliary Set is missing
ReportReadNoDedupe(S, source) ==
  LET c == S.currentConsumer IN
  IF c = Null THEN S
  ELSE [S EXCEPT !.sources[c] = Append(S.sources[c], source),
                 !.observers[source] = Append(S.observers[source], c)]

ReportRead(S, source) ==
  LET c == S.currentConsumer IN
  IF c = Null THEN S
  ELSE IF source \in SeqToSet(S.sources[c]) THEN S
  ELSE [S EXCEPT !.sources[c] = Append(S.sources[c], source),
                 !.observers[source] = Append(S.observers[source], c)]

\* swap-and-pop removal of node from one observers array
RemoveObserver(obs, node) ==
  LET idx == IndexOf(obs, node)
      last == Len(obs)
  IN IF idx = 0 THEN obs
     ELSE SubSeq(IF idx # last THEN [obs EXCEPT ![idx] = obs[last]] ELSE obs, 1, last - 1)

RECURSIVE CleanupLoop(_, _, _, _)
CleanupLoop(obsAll, srcs, i, node) ==
  IF i > Len(srcs) THEN obsAll
  ELSE CleanupLoop([obsAll EXCEPT ![srcs[i]] = RemoveObserver(obsAll[srcs[i]], node)],
                   srcs, i + 1, node)

CleanupSources(S, node) ==
  [S EXCEPT !.observers = CleanupLoop(S.observers, S.sources[node], 1, node),
            !.sources[node] = <<>>,
            !.sourcesVersions[node] = <<>>]

SnapshotSourceVersions(S, node) ==
  [S EXCEPT !.sourcesVersions[node] =
     [i \in 1..Len(S.sources[node]) |-> S.version[S.sources[node][i]]]]

\* mutant: the counter stops at 2^31 - 1
Inc32Saturating(v) == IF v >= MaxInt32 THEN MaxInt32 ELSE v + 1

\* (version + 1) | 0 : 32-bit signed wrap
Inc32(v) == IF v = MaxInt32 THEN MinInt32 ELSE v + 1

IncrementVersion(S, node) == [S EXCEPT !.version[node] = Inc32(S.version[node])]

\* value a node would have if everything were recomputed from the current
\* source values (observation only; fuel stops the cyclic program)
RECURSIVE Truth(_, _, _)
Truth(S, n, fuel) ==
  IF Kind(S.prog, n) = "source" THEN S.value[n]
  ELSE IF fuel = 0 THEN Undef
  ELSE LET rs == Reads(S.prog, n)
           vs == [i \in 1..Len(rs) |->
                    Truth(S, Resolve(rs[i], <<Truth(S, rs[1], fuel - 1)>>), fuel - 1)]
       IN IF \E i \in 1..Len(rs) : vs[i] = Undef THEN Undef
          ELSE Apply(Fn(S.prog, n), vs)


\* s is a transitive source of n in the program text (observation only)
RECURSIVE DependsOn(_, _, _, _)
DependsOn(p, n, s, fuel) ==
  /\ fuel > 0
  /\ \E i \in 1..Len(Reads(p, n)) : \E r \in Targets(Reads(p, n)[i]) :
        r = s \/ DependsOn(p, r, s, fuel - 1)

\* every call between the operations below goes through Call, the one
\* recursive operator of the call tree; a step that needs the result of a
\* call receives it as the first parameter of the operator that continues
RECURSIVE Call(_, _, _)
RECURSIVE UINLoop(_, _), ScanSources(_, _, _), CallSubscribers(_, _, _)

\* ---- signal.get() of a graph signal / computed.get() ----
GetReturn(T, n, g) == [T EXCEPT !.inGet = g, !.ret = T.value[n]]

Get(S, n) ==
  IF Kind(S.prog, n) = "source"
  THEN GetReturn(ReportRead(S, n), n, S.inGet)
  ELSE GetReturn(Call([ReportRead(S, n) EXCEPT !.inGet = @ + 1], "UpdateIfNecessary", <<n>>),
                 n, S.inGet)

\* the body of a user function: get() of each node it reads, in order.
\* ret = [seen, truth]: the values returned, and what a full recomputation
\* would have given at the moment of each read.
EvalReadsNext(T, rs, i, seen, truth) ==
  IF T.err # "none" THEN [T EXCEPT !.ret = [seen |-> seen, truth |-> truth]]
  ELSE Call(T, "EvalReads",
            <<rs, i + 1, Append(seen, T.ret),
              Append(truth, Truth(T, Resolve(rs[i], seen), NN))>>)

\* a statement of the body before its i-th read: handle.dispose() of the
\* running effect itself (the handle exists once createEffect has returned)
BeforeRead(S, i, seen) ==
  IF S.currentConsumer # Null /\ S.handle[S.currentConsumer]
     /\ DisposesSelf(S.prog, S.currentConsumer, i, seen)
  THEN Call(S, "Dispose", <<S.currentConsumer>>)
  ELSE S

\* untracked(fn), fn being one get(): the consumer is set aside for the
\* call and put back in the finally block
Untracked(S, n) ==
  [Call([S EXCEPT !.currentConsumer = Null], "Get", <<n>>)
     EXCEPT !.currentConsumer = S.currentConsumer]

\* the i-th read of the running body
BodyRead(S, i, n) ==
  IF S.currentConsumer # Null /\ i \in UntrackedReads(S.prog, S.currentConsumer)
  THEN Untracked(S, n)
  ELSE Call(S, "Get", <<n>>)

EvalReads(S, rs, i, seen, truth) ==
  IF i > Len(rs) THEN [S EXCEPT !.ret = [seen |-> seen, truth |-> truth]]
  ELSE EvalReadsNext(BodyRead(BeforeRead(S, i, seen), i, Resolve(rs[i], seen)),
                     rs, i, seen, truth)

\* ---- computed.ts: recompute ----
\* the event records the states and versions at the call (observation only)
RecomputeBegin(S, n) ==
  [StartTracking([CleanupSources(S, n) EXCEPT !.computing[n] = TRUE], n)
     EXCEPT !.fnRuns[n] = IF @ < 2 THEN @ + 1 ELSE @,
            !.log = Append(@, [t |-> "compute", n |-> n, seen |-> <<S.state[n]>>,
                               truth |-> <<>>, d |-> S.depth, g |-> S.inGet,
                               x |-> S.inExec, st |-> S.state, ver |-> S.version])]

\* mutant: the equality cutoff is missing
StoreValueNoEquals(T, n, newValue) ==
  [IncrementVersion(T, n) EXCEPT !.value[n] = newValue, !.initialized[n] = TRUE]

\* if (!initialized || !equals(value, newValue)) { value = ...; incrementVersion }
StoreValue(T, n, newValue) ==
  IF ~T.initialized[n] \/ ~Equals(EqualsOpt(T.prog, n), T.value[n], newValue)
  THEN [IncrementVersion(T, n) EXCEPT !.value[n] = newValue, !.initialized[n] = TRUE]
  ELSE T

\* mutant: the finally block does not reset _computing
RecomputeFinallyNoReset(T, n) == EndTracking(T, n)

RecomputeFinally(T, n) == [EndTracking(T, n) EXCEPT !.computing[n] = FALSE]

\* the return of compute(): the values read and the sources kept
\* (observation only)
Computed(T, n) ==
  Append(T.log, [t |-> "computed", n |-> n, seen |-> T.ret.seen, truth |-> T.ret.truth,
                 d |-> T.depth, g |-> T.inGet, x |-> T.inExec, sources |-> T.sources[n]])

\* mutant: the node is not marked CLEAN after a recomputation
RecomputeFinishNoClean(T, n) ==
  IF T.err # "none" THEN T
  ELSE [SnapshotSourceVersions(T, n) EXCEPT !.fnDone[n] = IF @ < 2 THEN @ + 1 ELSE @,
                                            !.log = Computed(T, n)]

RecomputeFinish(T, n) ==
  IF T.err # "none" THEN T
  ELSE [SnapshotSourceVersions(T, n) EXCEPT !.state[n] = CLEAN,
                                            !.fnDone[n] = IF @ < 2 THEN @ + 1 ELSE @,
                                            !.log = Computed(T, n)]

RecomputeAfterFn(T, n) ==
  RecomputeFinish(
    RecomputeFinally(IF T.err # "none" THEN T
                     ELSE StoreValue(T, n, Apply(Fn(T.prog, n), T.ret.seen)), n), n)

Recompute(S, n) ==
  IF S.computing[n] THEN Throw(S, "circular")
  ELSE RecomputeAfterFn(
         Call(RecomputeBegin(S, n), "EvalReads", <<Reads(S.prog, n), 1, <<>>, <<>> >>), n)

\* ---- reactive-node.ts: updateIfNecessary (explicit stack) ----
\* mutant: the scan does not compare versions with the snapshot
ScanSourcesNoVersions(S, n, i) ==
  IF i > Len(S.sources[n]) THEN [r |-> "clean", i |-> i]
  ELSE IF S.state[S.sources[n][i]] # CLEAN THEN [r |-> "push", i |-> i]
  ELSE ScanSources(S, n, i + 1)

\* first index >= i of n.sources that stops the CHECK scan, and why
ScanSources(S, n, i) ==
  IF i > Len(S.sources[n]) THEN [r |-> "clean", i |-> i]
  ELSE IF S.state[S.sources[n][i]] # CLEAN THEN [r |-> "push", i |-> i]
  ELSE IF i > Len(S.sourcesVersions[n]) \/ S.version[S.sources[n][i]] # S.sourcesVersions[n][i]
       THEN [r |-> "dirty", i |-> i]
       ELSE ScanSources(S, n, i + 1)

Pop(stack) == SubSeq(stack, 1, Len(stack) - 1)

ComputeIfComputed(S, n) ==
  IF Kind(S.prog, n) = "computed" THEN Call(S, "Recompute", <<n>>) ELSE S

\* the CHECK branch, given the result sc of the scan of n's sources
UINCheck(S, stack, n, sc) ==
  IF sc.r = "push"
  THEN UINLoop(S, Append([stack EXCEPT ![Len(stack)].sourceIdx = sc.i],
                         [node |-> S.sources[n][sc.i], sourceIdx |-> 1]))
  ELSE IF sc.r = "clean"
  THEN UINLoop([S EXCEPT !.state[n] = CLEAN], Pop(stack))
  ELSE UINLoop(Call([S EXCEPT !.state[n] = DIRTY], "ComputeIfComputed", <<n>>), Pop(stack))

UINFrame(S, stack, n, sourceIdx) ==
  IF S.state[n] = CLEAN THEN UINLoop(S, Pop(stack))
  ELSE IF S.state[n] = CHECK THEN UINCheck(S, stack, n, ScanSources(S, n, sourceIdx))
  ELSE UINLoop(Call(S, "ComputeIfComputed", <<n>>), Pop(stack))

UINLoop(S, stack) ==
  IF S.err # "none" \/ Len(stack) = 0 THEN S
  ELSE UINFrame(S, stack, stack[Len(stack)].node, stack[Len(stack)].sourceIdx)

\* the return of updateIfNecessary(node) (observation only): the states and
\* versions at its call (state S0) and at its return, node's sources and
\* snapshot at the call, and the length of the log at the call
Pulled(U, node, S0) ==
  [U EXCEPT !.log = Append(@, [t |-> "pulled", n |-> node, seen |-> <<>>, truth |-> <<>>,
                               d |-> U.depth, g |-> U.inGet, x |-> U.inExec,
                               err |-> U.err, from |-> Len(S0.log),
                               before |-> S0.state, after |-> U.state,
                               verBefore |-> S0.version, verAfter |-> U.version,
                               valBefore |-> S0.value, valAfter |-> U.value,
                               srcs |-> S0.sources[node],
                               snap |-> S0.sourcesVersions[node]])]

UpdateIfNecessary(S, node) ==
  IF S.state[node] = CLEAN THEN Pulled(S, node, S)
  ELSE Pulled(Call(S, "UINLoop", << << [node |-> node, sourceIdx |-> 1] >> >>), node, S)

\* ---- effect.ts: execute ----
\* the body of the cleanup function: h.dispose() of the inner effect
CleanupBody(T, e) ==
  IF InnerOf(T.prog, e) = Null THEN T ELSE Call(T, "Dispose", <<InnerOf(T.prog, e)>>)

RunCleanup(S, e) ==
  IF S.cleanup[e] THEN CleanupBody(Ev(S, "cleanup", e, <<>>, <<>>), e) ELSE S

\* mutant: the node is marked CLEAN before the body runs and the _computing
\* flag is not set
ExecuteBeginCleanFirst(U, e) ==
  StartTracking([CleanupSources(RunCleanup(U, e), e)
                   EXCEPT !.state[e] = CLEAN, !.bodies = Append(@, e)], e)

\* bodies: the effects whose body is running (observation only)
ExecuteBegin(U, e) ==
  StartTracking([CleanupSources(RunCleanup(U, e), e)
                   EXCEPT !.computing[e] = TRUE, !.bodies = Append(@, e)], e)

\* the signal.set() of the body, after its reads
BodyWrites(T, e) ==
  IF T.err # "none" \/ BodyWrite(T.prog, e, T.ret.seen).s = Null THEN T
  ELSE [Call(T, "SignalSet", <<BodyWrite(T.prog, e, T.ret.seen).s,
                               BodyWrite(T.prog, e, T.ret.seen).v>>)
          EXCEPT !.ret = T.ret]

\* createEffect(fn) called by the body, after its reads: a new node, DIRTY,
\* whose first run is immediate
NewEffect(T, c) ==
  [T EXCEPT !.state[c] = DIRTY, !.version[c] = 0, !.sources[c] = <<>>,
            !.sourcesVersions[c] = <<>>, !.disposed[c] = FALSE,
            !.cleanup[c] = FALSE, !.lastRet[c] = FALSE]

BodyCreates(T, e) ==
  IF T.err # "none" \/ InnerOf(T.prog, e) = Null THEN T
  ELSE [Call(NewEffect(T, InnerOf(T.prog, e)), "Execute", <<InnerOf(T.prog, e)>>)
          EXCEPT !.ret = T.ret]

\* the body has returned or thrown: record the run (d = batch depth at its
\* start) and keep the cleanup it returned
BodyEnd(T, e) ==
  IF T.err = "none" /\ BodyThrows(T.prog, e, T.ret.seen) THEN Throw(T, "bodyError") ELSE T

\* U: the state at the call of the body (from: the length of the log then;
\* nested: an earlier invocation of the same body was running; round: the
\* iteration of the flush loop that called run(), 0 outside a flush)
ExecuteStore(T, e, U) ==
  [T EXCEPT !.log = Append(T.log, [t |-> "run", n |-> e, seen |-> T.ret.seen,
                                   truth |-> T.ret.truth, d |-> U.depth, g |-> T.inGet,
                                   x |-> T.inExec, from |-> Len(U.log),
                                   nested |-> e \in SeqToSet(U.bodies),
                                   sources |-> T.sources[e],
                                   round |-> IF T.flushing THEN T.flushIterations ELSE 0]),
            !.bodies = U.bodies,
            !.cleanup[e] = IF T.err # "none" THEN @ ELSE ReturnsCleanup(T.prog, e),
            !.lastRet[e] = IF T.err # "none" THEN FALSE ELSE ReturnsCleanup(T.prog, e)]

ExecuteResult(T, e, U) == ExecuteStore(BodyEnd(BodyCreates(BodyWrites(T, e), e), e), e, U)

\* mutant: endTracking is not in a finally block
ExecuteFinallyNormalOnly(T, e) ==
  IF T.err # "none" THEN [T EXCEPT !.computing[e] = FALSE]
  ELSE [EndTracking(T, e) EXCEPT !.computing[e] = FALSE]

ExecuteFinally(T, e) == [EndTracking(T, e) EXCEPT !.computing[e] = FALSE]

ExecuteFinish(T, e) ==
  IF T.err # "none" THEN T
  ELSE [SnapshotSourceVersions(T, e) EXCEPT !.state[e] = CLEAN]

ExecuteAfterPull(U, e) ==
  IF U.err # "none" THEN U
  ELSE IF U.state[e] = CLEAN THEN Ev(U, "verifiedClean", e, <<>>, <<>>)
  ELSE ExecuteFinish(
         ExecuteFinally(
           ExecuteResult(
             Call(ExecuteBegin(U, e), "EvalReads", <<Reads(U.prog, e), 1, <<>>, <<>> >>),
             e, U), e), e)

ExecuteReturn(T, x) == [T EXCEPT !.inExec = x]

\* mutant: execute() does not look at the disposed flag
ExecuteNoDisposedCheck(S, e) ==
  IF S.computing[e] THEN Ev(S, "reentrant", e, <<>>, <<>>)
  ELSE ExecuteReturn(
         ExecuteAfterPull(Call([S EXCEPT !.inExec = @ + 1], "UpdateIfNecessary", <<e>>), e),
         S.inExec)

Execute(S, e) ==
  IF S.disposed[e] THEN Ev(S, "execDisposed", e, <<>>, <<>>)
  ELSE IF S.computing[e] THEN Ev(S, "reentrant", e, <<>>, <<>>)
  ELSE ExecuteReturn(
         ExecuteAfterPull(Call([S EXCEPT !.inExec = @ + 1], "UpdateIfNecessary", <<e>>), e),
         S.inExec)

\* ---- effect.ts: node.notify; the scheduler is the default one
\* (primitive) or signalReactive's scheduleEffect (strategy) ----
Notify(S, e) ==
  IF S.disposed[e] THEN S
  ELSE IF S.mode = "strategy" THEN Call(S, "ScheduleEffect", <<e>>)
  ELSE Call(S, "Execute", <<e>>)

\* ---- signal-reactive/index.ts ----
\* mutant: an effect scheduled while a flush is running is dropped
ScheduleEffectIdleOnly(S, e) ==
  IF S.flushing THEN S
  ELSE Call([S EXCEPT !.pendingEffects = SetAdd(S.pendingEffects, e)], "Enqueue", <<"flush">>)

ScheduleEffect(S, e) ==
  Call([S EXCEPT !.pendingEffects = SetAdd(S.pendingEffects, e)], "Enqueue", <<"flush">>)

RunEffects(S, effects, i) ==
  IF S.err # "none" \/ i > Len(effects) THEN S
  ELSE Call(Call(S, "Execute", <<effects[i]>>), "RunEffects", <<effects, i + 1>>)

\* an exception of run() leaves the while loop
RoundEnd(T) ==
  IF T.err # "none" THEN [T EXCEPT !.flushLooping = FALSE]
  ELSE Ev(T, "round", Null, <<T.flushIterations>>, <<>>)

\* mutant: the iteration ceiling is missing
FlushPassNoCeiling(S) ==
  IF ~S.flushLooping THEN S
  ELSE IF Len(S.pendingEffects) = 0 THEN [S EXCEPT !.flushLooping = FALSE]
  ELSE RoundEnd(Call([S EXCEPT !.pendingEffects = <<>>, !.flushIterations = @ + 1],
                     "RunEffects", <<S.pendingEffects, 1>>))

\* one iteration of while (pendingEffects.size > 0), if the loop has not
\* been left: if (++iterations > MAX_ITERATIONS) { console.error; clear; break }
FlushPass(S) ==
  IF ~S.flushLooping THEN S
  ELSE IF Len(S.pendingEffects) = 0 THEN [S EXCEPT !.flushLooping = FALSE]
  ELSE IF S.flushIterations + 1 > MAX_ITERATIONS
  THEN Ev([S EXCEPT !.pendingEffects = <<>>, !.flushLooping = FALSE,
                    !.flushIterations = @ + 1],
          "flushCeiling", Null, S.pendingEffects, <<>>)
  ELSE RoundEnd(Call([S EXCEPT !.pendingEffects = <<>>, !.flushIterations = @ + 1],
                     "RunEffects", <<S.pendingEffects, 1>>))

\* 2^k iterations of the while loop; 2^LoopDoublings exceeds MAX_ITERATIONS + 1,
\* the largest number of iterations the loop can make
FlushLoop(S, k) ==
  IF ~S.flushLooping THEN S
  ELSE IF k = 0 THEN Call(S, "FlushPass", <<>>)
  ELSE Call(Call(S, "FlushLoop", <<k - 1>>), "FlushLoop", <<k - 1>>)

FlushFinally(T) == [T EXCEPT !.flushing = FALSE, !.flushLooping = FALSE]

Flush(S) ==
  IF S.flushing THEN S
  ELSE FlushFinally(
         Call(Call(Call([S EXCEPT !.flushing = TRUE, !.flushLooping = TRUE,
                                  !.flushIterations = 0], "FlushPass", <<>>),
                   "FlushPass", <<>>),
              "FlushLoop", <<LoopDoublings>>))

\* ---- BatchQueue ----
\* f(): the flush of signalReactive, or a callback of the program
CallPending(S, f) ==
  IF f = "flush" THEN Call(S, "Flush", <<>>)
  ELSE IF CallbackThrows(f) # "none"
  THEN Throw(Ev(S, "callback", Null, <<f>>, <<>>), CallbackThrows(f))
  ELSE Ev(S, "callback", Null, <<f>>, <<>>)

\* mutant: enqueue ignores the batch depth
EnqueueImmediate(S, f) == Call(S, "CallPending", <<f>>)

\* mutant: pending is an array, not a Set
EnqueueAppend(S, f) ==
  IF S.depth > 0 THEN [S EXCEPT !.bqPending = Append(S.bqPending, f)]
  ELSE Call(S, "CallPending", <<f>>)

Enqueue(S, f) ==
  IF S.depth > 0 THEN [S EXCEPT !.bqPending = SetAdd(S.bqPending, f)]
  ELSE Call(S, "CallPending", <<f>>)

\* the drain of the finally block: every callback runs, first error kept
\* console.error('Forge: additional error during batch flush:', e)
ReportLater(T, firstError) ==
  IF T.err # "none" /\ firstError # "none" THEN Ev(T, "reported", Null, <<T.err>>, <<>>)
  ELSE T

\* mutant: the error kept for the re-throw is the last one, not the first
DrainNextKeepLast(T, fns, i, firstError) ==
  Call(Ev(ReportLater(T, firstError), "drained", Null, <<>>, <<>>), "DrainLoop",
       <<fns, i + 1, IF T.err # "none" THEN T.err ELSE firstError>>)

DrainNext(T, fns, i, firstError) ==
  Call(Ev(ReportLater(T, firstError), "drained", Null, <<>>, <<>>), "DrainLoop",
       <<fns, i + 1, IF firstError = "none" THEN T.err ELSE firstError>>)

DrainLoop(S, fns, i, firstError) ==
  IF i > Len(fns) THEN [S EXCEPT !.err = firstError]
  ELSE DrainNext(Call([S EXCEPT !.err = "none"], "CallPending", <<fns[i]>>), fns, i, firstError)

\* if (firstError !== undefined) throw firstError; else the exception of fn
Rethrow(T, outer) == IF T.err # "none" THEN T ELSE [T EXCEPT !.err = outer]

\* mutant: every batch exit drains, not only the outermost
BatchFinallyAlwaysDrain(S) ==
  Rethrow(Call([S EXCEPT !.depth = @ - 1, !.bqPending = <<>>], "DrainLoop",
               <<S.bqPending, 1, "none">>), S.err)

\* finally { depth--; if (depth === 0) drain }
BatchFinally(S) ==
  IF S.depth - 1 # 0 THEN [S EXCEPT !.depth = @ - 1]
  ELSE Rethrow(Call([S EXCEPT !.depth = @ - 1, !.bqPending = <<>>], "DrainLoop",
                    <<S.bqPending, 1, "none">>), S.err)

\* ---- reactive-node.ts: propagateDirty ----
\* observer.state = st; an effect's notify() is called (hooks: the effects
\* notified by the running propagateDirty, observation only)
MarkAndNotify(S, observer, st) ==
  IF Kind(S.prog, observer) = "effect"
  THEN Call([S EXCEPT !.state[observer] = st, !.hooks = Append(@, observer)],
            "Notify", <<observer>>)
  ELSE [S EXCEPT !.state[observer] = st]

\* mutant: phase 1 stops after the first direct observer
MarkDirectFirstOnly(S, source, i, len, queue) ==
  IF S.err # "none" THEN S
  ELSE IF i > len \/ i > 1 THEN [S EXCEPT !.ret = queue]
  ELSE IF S.state[S.observers[source][i]] < DIRTY
  THEN Call(MarkAndNotify(S, S.observers[source][i], DIRTY), "MarkDirect",
            <<source, i + 1, len, Append(queue, S.observers[source][i])>>)
  ELSE Call(S, "MarkDirect", <<source, i + 1, len, queue>>)

\* phase 1: direct observers -> DIRTY.  ret = the BFS queue.
MarkDirect(S, source, i, len, queue) ==
  IF S.err # "none" THEN S
  ELSE IF i > len THEN [S EXCEPT !.ret = queue]
  ELSE IF i > Len(S.observers[source]) THEN Throw(S, "TypeError")
  ELSE IF S.state[S.observers[source][i]] < DIRTY
  THEN Call(MarkAndNotify(S, S.observers[source][i], DIRTY), "MarkDirect",
            <<source, i + 1, len, Append(queue, S.observers[source][i])>>)
  ELSE Call(S, "MarkDirect", <<source, i + 1, len, queue>>)

\* phase 2, inner loop over the observers of one queued node
MarkObservers(S, node, i, len, queue) ==
  IF S.err # "none" THEN S
  ELSE IF i > len THEN [S EXCEPT !.ret = queue]
  ELSE IF i > Len(S.observers[node]) THEN Throw(S, "TypeError")
  ELSE IF S.state[S.observers[node][i]] < CHECK
  THEN Call(MarkAndNotify(S, S.observers[node][i], CHECK), "MarkObservers",
            <<node, i + 1, len, Append(queue, S.observers[node][i])>>)
  ELSE Call(S, "MarkObservers", <<node, i + 1, len, queue>>)

MarkDownstreamNext(T, head) ==
  IF T.err # "none" THEN T ELSE Call(T, "MarkDownstream", <<T.ret, head + 1>>)

MarkDownstream(S, queue, head) ==
  IF S.err # "none" \/ head > Len(queue) THEN S
  ELSE MarkDownstreamNext(
         Call(S, "MarkObservers", <<queue[head], 1, Len(S.observers[queue[head]]), queue>>),
         head)

\* the return of propagateDirty(source) (observation only): the node states
\* at its entry (state S0) and at its return, the edges at its return and the
\* effects whose notify() it called
Propagated(U, source, S0) ==
  [U EXCEPT !.log = Append(@, [t |-> "propagated", n |-> source, seen |-> <<>>,
                               truth |-> <<>>, d |-> U.depth, g |-> U.inGet,
                               x |-> U.inExec, err |-> U.err,
                               before |-> S0.state, after |-> U.state,
                               obs |-> U.observers, hooks |-> U.hooks]),
            !.hooks = S0.hooks]

\* mutant: phase 2 (transitive observers -> CHECK) is missing
PropagateDirectOnly(T, source, S0) ==
  IF T.err # "none" THEN T ELSE Propagated(T, source, S0)

PropagateDownstream(T, source, S0) ==
  IF T.err # "none" THEN T
  ELSE Propagated(Call(T, "MarkDownstream", <<T.ret, 1>>), source, S0)

PropagateDirty(S, source) ==
  PropagateDownstream(
    Call([S EXCEPT !.hooks = <<>>], "MarkDirect",
         <<source, 1, Len(S.observers[source]), <<>> >>), source, S)

\* ---- signal.ts: notify (direct subscribers; here they only record) ----
\* fn(value) of one subscriber; a subscriber that writes calls the set() of
\* the signal it subscribed to
CallSubscriber(S, s, k) ==
  CASE k = "inc"   -> Call(S, "SignalSet", <<s, S.value[s] + 1>>)
    [] k = "conv"  -> IF S.value[s] < ConvergeAt
                      THEN Call(S, "SignalSet", <<s, S.value[s] + 1>>) ELSE S
    [] k = "throw" -> Throw(S, "subscriberError")
    [] OTHER       -> S

\* catch (e) { console.error('Error in signal subscriber:', e) }
CatchSubscriber(T, s) ==
  IF T.err # "none" THEN Ev([T EXCEPT !.err = "none"], "reported", s, <<T.err>>, <<>>)
  ELSE T

\* for (const fn of [...subscribers]): the i-th subscriber is called with the
\* current value (event seen = <<value, i>>)
CallSubscribers(S, s, i) ==
  IF i > Len(Subscribers(S.prog, s)) THEN S
  ELSE CallSubscribers(
         CatchSubscriber(
           CallSubscriber(Ev(S, "subscriber", s, <<S.value[s], i>>, <<>>), s,
                          Subscribers(S.prog, s)[i]), s),
         s, i + 1)

\* mutant: the dirty flag is ignored, no additional pass is made
NotifyAgainNever(T, s) == [T EXCEPT !.looping[s] = FALSE]

\* } while (dirty): the loop of this notify() goes on (looping) or is left
NotifyAgain(T, s) ==
  IF T.dirtyFlag[s] THEN T ELSE [T EXCEPT !.looping[s] = FALSE]

\* mutant: the iteration ceiling is missing
NotifyPassNoCeiling(S, s) ==
  IF ~S.looping[s] THEN S
  ELSE NotifyAgain(
         CallSubscribers([S EXCEPT !.dirtyFlag[s] = FALSE, !.iterations[s] = @ + 1], s, 1), s)

\* one iteration of the do-while, if the loop has not been left:
\* dirty = false; if (++iterations > MAX_ITERATIONS) { console.error; break }
NotifyPass(S, s) ==
  IF ~S.looping[s] THEN S
  ELSE IF S.iterations[s] + 1 > SignalMaxIterations
  THEN Ev([S EXCEPT !.dirtyFlag[s] = FALSE, !.looping[s] = FALSE],
          "notifyCeiling", s, <<S.value[s]>>, <<>>)
  ELSE NotifyAgain(
         CallSubscribers([S EXCEPT !.dirtyFlag[s] = FALSE, !.iterations[s] = @ + 1], s, 1), s)

\* 2^k iterations of the do-while; 2^LoopDoublings exceeds
\* SignalMaxIterations + 1, the largest number of iterations the loop can make
NotifyLoop(S, s, k) ==
  IF ~S.looping[s] THEN S
  ELSE IF k = 0 THEN Call(S, "NotifyPass", <<s>>)
  ELSE Call(Call(S, "NotifyLoop", <<s, k - 1>>), "NotifyLoop", <<s, k - 1>>)

NotifySubscribers(S, s) ==
  [NotifyLoop(Call([S EXCEPT !.notifying[s] = TRUE, !.looping[s] = TRUE,
                             !.iterations[s] = 0], "NotifyPass", <<s>>),
              s, LoopDoublings)
     EXCEPT !.notifying[s] = FALSE, !.dirtyFlag[s] = FALSE]

\* ---- signal.ts set() with graph-signal.ts onWrite ----
OnWrite(S, s) ==
  Call(IncrementVersion(Ev(S, "onWrite", s, <<>>, <<>>), s), "PropagateDirty", <<s>>)

GraphSetAfterWrite(T, s) ==
  IF T.err # "none" THEN T
  ELSE IF T.notifying[s] THEN [T EXCEPT !.dirtyFlag[s] = TRUE]
  ELSE NotifySubscribers(T, s)

\* mutant: set() does not compare the new value with the current one
GraphSetNoEquals(S, s, newValue) ==
  GraphSetAfterWrite(
    Call([S EXCEPT !.value[s] = newValue], "OnWrite", <<s>>), s)

GraphSet(S, s, newValue) ==
  IF Equals("is", S.value[s], newValue) THEN S
  ELSE GraphSetAfterWrite(
         Call([S EXCEPT !.value[s] = newValue,
                        !.fnRuns = [n \in Nodes |-> IF DependsOn(S.prog, n, s, NN) THEN 0 ELSE @[n]],
                        !.fnDone = [n \in Nodes |-> IF DependsOn(S.prog, n, s, NN) THEN 0 ELSE @[n]]],
              "OnWrite", <<s>>), s)

\* ---- signal-reactive/index.ts: signal().set = batch(() => originalSet) ----
BatchedSet(S, s, next) ==
  Call(Call([S EXCEPT !.depth = @ + 1], "GraphSet", <<s, next>>), "BatchFinally", <<>>)

SignalSet(S, s, next) ==
  IF S.mode = "strategy" THEN Call(S, "BatchedSet", <<s, next>>)
  ELSE Call(S, "GraphSet", <<s, next>>)

\* ---- effect.ts: dispose ----
\* mutant: dispose() does not call the stored cleanup
DisposeNoCleanup(S, e) ==
  IF S.disposed[e] THEN S
  ELSE CleanupSources([Ev([S EXCEPT !.disposed[e] = TRUE], "dispose", e, <<>>, <<>>)
                         EXCEPT !.cleanup[e] = FALSE], e)

Dispose(S, e) ==
  IF S.disposed[e] THEN S
  ELSE CleanupSources([RunCleanup(Ev([S EXCEPT !.disposed[e] = TRUE], "dispose", e, <<>>, <<>>), e)
                         EXCEPT !.cleanup[e] = FALSE], e)

Call(S, f, a) ==
  CASE f = "Get" -> Get(S, a[1])
    [] f = "EvalReads" -> EvalReads(S, a[1], a[2], a[3], a[4])
    [] f = "Recompute" -> Recompute(S, a[1])
    [] f = "ComputeIfComputed" -> ComputeIfComputed(S, a[1])
    [] f = "UINLoop" -> UINLoop(S, a[1])
    [] f = "UpdateIfNecessary" -> UpdateIfNecessary(S, a[1])
    [] f = "Execute" -> Execute(S, a[1])
    [] f = "Notify" -> Notify(S, a[1])
    [] f = "ScheduleEffect" -> ScheduleEffect(S, a[1])
    [] f = "RunEffects" -> RunEffects(S, a[1], a[2])
    [] f = "FlushLoop" -> FlushLoop(S, a[1])
    [] f = "FlushPass" -> FlushPass(S)
    [] f = "Flush" -> Flush(S)
    [] f = "CallPending" -> CallPending(S, a[1])
    [] f = "Enqueue" -> Enqueue(S, a[1])
    [] f = "DrainLoop" -> DrainLoop(S, a[1], a[2], a[3])
    [] f = "BatchFinally" -> BatchFinally(S)
    [] f = "MarkDirect" -> MarkDirect(S, a[1], a[2], a[3], a[4])
    [] f = "MarkObservers" -> MarkObservers(S, a[1], a[2], a[3], a[4])
    [] f = "MarkDownstream" -> MarkDownstream(S, a[1], a[2])
    [] f = "PropagateDirty" -> PropagateDirty(S, a[1])
    [] f = "OnWrite" -> OnWrite(S, a[1])
    [] f = "GraphSet" -> GraphSet(S, a[1], a[2])
    [] f = "BatchedSet" -> BatchedSet(S, a[1], a[2])
    [] f = "SignalSet" -> SignalSet(S, a[1], a[2])
    [] f = "NotifyPass" -> NotifyPass(S, a[1])
    [] f = "NotifyLoop" -> NotifyLoop(S, a[1], a[2])
    [] f = "Dispose" -> Dispose(S, a[1])

\* ---- the state machine ----
Sources == {n \in Nodes : Kind(prog, n) = "source"}
Computeds == {n \in Nodes : Kind(prog, n) = "computed"}
Effects == {n \in Nodes : Kind(prog, n) = "effect"}

\* ---- the reconciler's state before mount(v, container) ----
Container == 1
Fragment == "Fragment"
NoTree == [tag |-> "none", props |-> <<>>, key |-> 0, children |-> <<>>]
NewBase == 100

\* the VNode objects of a tree
VKids(t) == {i \in 1..Len(t.children) : t.children[i].isV}
TreeIds(t, root) ==
  {root} \cup {root + i : i \in VKids(t)}
         \cup UNION {{root + 10 * i + j : j \in VKids(t.children[i].node)} : i \in VKids(t)}
VNodeIds(v) == TreeIds(v.old, 0) \cup TreeIds(v.new, NewBase)

\* the reconciler's state before mount(old, container): no VNode has an el,
\* a side-table entry or a _parentEl; the document holds the empty container
InitDom(o, n) ==
  /\ vnode = [old |-> o, new |-> n]
  /\ vnodeEl = [i \in VNodeIds(vnode) |-> Null]
  /\ childNodesMap = [i \in VNodeIds(vnode) |-> <<>>]
  /\ parentEl = [i \in VNodeIds(vnode) |-> Null]
  /\ childNodes = (Container :> <<>>)
  /\ attributes = (Container :> {})
  /\ listeners = (Container :> {})
  /\ eventHandlers = (Container :> {})
  /\ nextWrapper = 1
  /\ nextNode = Container + 1
  /\ domOps = <<>>
  /\ domErr = "none"
  /\ mounted = FALSE
  /\ patches = 0

NoOp == [op |-> "init", n |-> Null, v |-> Undef, changed |-> FALSE, d |-> 0]

\* State after construction of the signals and computeds (effects are created
\* by CreateEffect).  Source 1 may already have been written 2^31-2 times
\* (alternating two values, before anything observed it), which leaves its
\* value at the initial one and its version at 2147483646.
GraphOf(P) ==
  /\ prog \in P
  /\ value = [n \in Nodes |-> IF Kind(prog, n) = "source" THEN 0 ELSE Undef]
  /\ initialized = [n \in Nodes |-> FALSE]
  /\ state = [n \in Nodes |-> IF Kind(prog, n) = "source" THEN CLEAN ELSE DIRTY]
  /\ \E v0 \in InitVersions(prog) : version = [n \in Nodes |-> IF n = 1 THEN v0 ELSE 0]
  /\ sources = [n \in Nodes |-> <<>>]
  /\ sourcesVersions = [n \in Nodes |-> <<>>]
  /\ observers = [n \in Nodes |-> <<>>]
  /\ computing = [n \in Nodes |-> FALSE]
  /\ created = [n \in Nodes |-> Kind(prog, n) # "effect"]
  /\ handle = [n \in Nodes |-> FALSE]
  /\ disposed = [n \in Nodes |-> FALSE]
  /\ cleanup = [n \in Nodes |-> FALSE]
  /\ currentConsumer = Null
  /\ trackingStack = <<>>
  /\ depth = 0
  /\ bqPending = <<>>
  /\ pendingEffects = <<>>
  /\ flushing = FALSE
  /\ notifying = [n \in Nodes |-> FALSE]
  /\ dirtyFlag = [n \in Nodes |-> FALSE]
  /\ writes = 0
  /\ log = <<>>
  /\ lastOp = NoOp
  /\ lastErr = "none"
  /\ fnRuns = [n \in Nodes |-> 0]
  /\ fnDone = [n \in Nodes |-> 0]
  /\ lastRet = [n \in Nodes |-> FALSE]
  /\ enqueued = [f \in Callbacks |-> 0]

InitGraph == GraphOf(Progs)

\* the program state left by an operation; an exception that reached the
\* caller is recorded in lastErr
Commit(T) ==
  /\ value' = T.value
  /\ initialized' = T.initialized
  /\ state' = T.state
  /\ version' = T.version
  /\ sources' = T.sources
  /\ sourcesVersions' = T.sourcesVersions
  /\ observers' = T.observers
  /\ computing' = T.computing
  /\ disposed' = T.disposed
  /\ cleanup' = T.cleanup
  /\ currentConsumer' = T.currentConsumer
  /\ trackingStack' = T.trackingStack
  /\ depth' = T.depth
  /\ bqPending' = T.bqPending
  /\ pendingEffects' = T.pendingEffects
  /\ flushing' = T.flushing
  /\ notifying' = T.notifying
  /\ dirtyFlag' = T.dirtyFlag
  /\ fnRuns' = T.fnRuns
  /\ fnDone' = T.fnDone
  /\ lastRet' = T.lastRet
  /\ log' = T.log
  /\ lastErr' = T.err
  /\ UNCHANGED <<prog, mode>>
  /\ UNCHANGED domVars
  /\ UNCHANGED diffVars

\* signal.set(v) by the user, at top level or inside an open batch(fn)
Set(s, v) ==
  /\ s \in Sources
  /\ v \in 0..MaxVal
  /\ v # value[s] => writes < MaxWrites
  /\ Commit(SignalSet(Pack, s, v))
  /\ writes' = IF v # value[s] THEN writes + 1 ELSE writes
  /\ lastOp' = [op |-> "set", n |-> s, v |-> v, changed |-> (v # value[s]), d |-> depth]
  /\ UNCHANGED <<created, handle, enqueued>>

\* computed.get() by the user, outside any tracking context
GetOp(n) ==
  /\ n \in TopGets(prog)
  /\ Commit(Call(Pack, "Get", <<n>>))
  /\ lastOp' = [op |-> "get", n |-> n, v |-> Undef, changed |-> FALSE, d |-> depth]
  /\ UNCHANGED <<created, handle, writes, enqueued>>

\* computed.peek(): updateIfNecessary without reportRead
PeekOp(n) ==
  /\ n \in TopPeeks(prog)
  /\ Commit(GetReturn(Call([Pack EXCEPT !.inGet = 1], "UpdateIfNecessary", <<n>>), n, 0))
  /\ lastOp' = [op |-> "peek", n |-> n, v |-> Undef, changed |-> FALSE, d |-> depth]
  /\ UNCHANGED <<created, handle, writes, enqueued>>

\* reactive.batch(fn): entry (depth++), the body being the operations that
\* follow until the matching BatchExit
BatchEnter ==
  /\ mode \in {"strategy", "queue"}
  /\ depth < MaxDepth
  /\ Commit([Pack EXCEPT !.depth = @ + 1])
  /\ lastOp' = [op |-> "batchEnter", n |-> Null, v |-> Undef, changed |-> FALSE, d |-> depth]
  /\ enqueued' = IF depth = 0 THEN [f \in Callbacks |-> 0] ELSE enqueued
  /\ UNCHANGED <<created, handle, writes>>

\* reactive.batch(fn): the finally block once fn has returned
BatchExit ==
  /\ depth > 0
  /\ Commit(Call(Pack, "BatchFinally", <<>>))
  /\ lastOp' = [op |-> "batchExit", n |-> Null, v |-> Undef, changed |-> FALSE, d |-> depth]
  /\ UNCHANGED <<created, handle, writes, enqueued>>

\* createEffect(fn, scheduler) / reactive.autorun(fn): first run is immediate;
\* the handle is returned only if that run did not throw
CreateEffect(e) ==
  /\ e \in Effects \ InnerEffects(prog)
  /\ ~created[e]
  /\ Commit(Call(Pack, "Execute", <<e>>))
  /\ handle' = [handle EXCEPT ![e] = (lastErr' = "none")]
  /\ created' = [created EXCEPT ![e] = TRUE]
  /\ lastOp' = [op |-> "create", n |-> e, v |-> Undef, changed |-> FALSE, d |-> depth]
  /\ UNCHANGED <<writes, enqueued>>

\* handle.dispose()
DisposeOp(e) ==
  /\ e \in Effects
  /\ handle[e]
  /\ Commit(Dispose(Pack, e))
  /\ lastOp' = [op |-> "dispose", n |-> e, v |-> Undef, changed |-> disposed[e], d |-> depth]
  /\ UNCHANGED <<created, handle, writes, enqueued>>

\* batchQueue.enqueue(f) by a program that owns the BatchQueue
EnqueueOp(f) ==
  /\ prog = "queue"
  /\ depth > 0 => enqueued[f] < MaxEnqueues
  /\ Commit(Call(Pack, "Enqueue", <<f>>))
  /\ enqueued' = IF depth > 0 THEN [enqueued EXCEPT ![f] = @ + 1] ELSE enqueued
  /\ lastOp' = [op |-> "enqueue", n |-> Null, v |-> f, changed |-> FALSE, d |-> depth]
  /\ UNCHANGED <<created, handle, writes>>

\* operations of the primitives layer (createGraphSignal, createComputed,
\* createEffect with the default scheduler)
NextPrimitive ==
  \/ \E s \in Nodes, v \in 0..MaxVal : Set(s, v)
  \/ \E n \in Nodes : GetOp(n)
  \/ \E n \in Nodes : PeekOp(n)
  \/ \E e \in Nodes : CreateEffect(e)
  \/ \E e \in Nodes : DisposeOp(e)

\* operations of signalReactive(): signal, computed, autorun, batch
Next ==
  \/ NextPrimitive
  \/ BatchEnter
  \/ BatchExit
  \/ \E f \in Callbacks : EnqueueOp(f)

\* no diffKeys call yet
InitDiff(o, n) ==
  /\ oldKeys = o
  /\ newKeys = n
  /\ diffOps = <<>>
  /\ diffed = FALSE
  /\ oldIndices = <<>>
  /\ sequence = <<>>

\* the program uses signalReactive() (strategy) or the primitives directly
\* with the default scheduler (primitive)
Init ==
  /\ mode \in Modes /\ InitGraph /\ (prog = "queue" <=> mode = "queue")
  /\ InitDom(NoTree, NoTree)
  /\ InitDiff(<<>>, <<>>)

Spec == Init /\ [][Next]_vars

\* the programs whose effects write to signals or read conditionally, with
\* signalReactive() or with the primitives
InitWriters ==
  /\ mode \in {"strategy", "primitive"} /\ GraphOf(WriterProgs)
  /\ InitDom(NoTree, NoTree)
  /\ InitDiff(<<>>, <<>>)

NextWriters ==
  \/ NextPrimitive
  \/ BatchEnter
  \/ BatchExit

SpecWriters == InitWriters /\ [][NextWriters]_vars

\* an effect that writes to the source of a Derived it has read
InitFeedback ==
  /\ mode \in {"strategy", "primitive"} /\ GraphOf({"feedback"})
  /\ InitDom(NoTree, NoTree)
  /\ InitDiff(<<>>, <<>>)

SpecFeedback == InitFeedback /\ [][NextWriters]_vars

\* the programs whose functions throw, nest or suspend tracking
TrackingProgs == {"nested", "cycle", "throwing"}

InitTracking ==
  /\ mode \in {"strategy", "primitive"} /\ GraphOf(TrackingProgs)
  /\ InitDom(NoTree, NoTree)
  /\ InitDiff(<<>>, <<>>)

SpecTracking == InitTracking /\ [][NextWriters]_vars

\* the chain program after 2^31 - 2 rounds of { s1.set(1 - s1.peek()); b.get() }:
\* every round changed s1, a and b, so the three versions are 2147483646, the
\* values are back at 0, 1, 2, a and b are CLEAN with their edges and
\* snapshots, and the effect is not created yet
WornVersion == MaxInt32 - 1
WornChain ==
  /\ prog = "chain"
  /\ value = <<0, 1, 2, Undef, 0, Undef>>
  /\ initialized = <<FALSE, TRUE, TRUE, FALSE, FALSE, FALSE>>
  /\ state = <<CLEAN, CLEAN, CLEAN, DIRTY, CLEAN, DIRTY>>
  /\ version = <<WornVersion, WornVersion, WornVersion, 0, 0, 0>>
  /\ sources = << <<>>, <<1>>, <<2>>, <<>>, <<>>, <<>> >>
  /\ sourcesVersions = << <<>>, <<WornVersion>>, <<WornVersion>>, <<>>, <<>>, <<>> >>
  /\ observers = << <<2>>, <<3>>, <<>>, <<>>, <<>>, <<>> >>
  /\ computing = [n \in Nodes |-> FALSE]
  /\ created = [n \in Nodes |-> Kind(prog, n) # "effect"]
  /\ handle = [n \in Nodes |-> FALSE]
  /\ disposed = [n \in Nodes |-> FALSE]
  /\ cleanup = [n \in Nodes |-> FALSE]
  /\ currentConsumer = Null
  /\ trackingStack = <<>>
  /\ depth = 0
  /\ bqPending = <<>>
  /\ pendingEffects = <<>>
  /\ flushing = FALSE
  /\ notifying = [n \in Nodes |-> FALSE]
  /\ dirtyFlag = [n \in Nodes |-> FALSE]
  /\ writes = 0
  /\ log = <<>>
  /\ lastOp = NoOp
  /\ lastErr = "none"
  /\ fnRuns = <<0, 1, 1, 0, 0, 0>>
  /\ fnDone = <<0, 1, 1, 0, 0, 0>>
  /\ lastRet = [n \in Nodes |-> FALSE]
  /\ enqueued = [f \in Callbacks |-> 0]

InitWrap ==
  /\ mode \in {"strategy", "primitive"} /\ WornChain
  /\ InitDom(NoTree, NoTree)
  /\ InitDiff(<<>>, <<>>)

SpecWrap == InitWrap /\ [][NextWriters]_vars

\* two autoruns of signalReactive() that re-trigger each other for ever
InitCeiling ==
  /\ mode = "strategy" /\ GraphOf({"pingpong"})
  /\ InitDom(NoTree, NoTree)
  /\ InitDiff(<<>>, <<>>)

NextCeiling ==
  \/ \E s \in Nodes, v \in 0..MaxVal : Set(s, v)
  \/ \E e \in Nodes : CreateEffect(e)
  \/ \E e \in Nodes : DisposeOp(e)
  \/ BatchEnter
  \/ BatchExit

SpecCeiling == InitCeiling /\ [][NextCeiling]_vars

\* ======================= reconciler: patch.ts ==========================
\* A VNode is [tag, props, key, children] (key 0: no key); a child is a text
\* or a VNode.  vnode holds the old tree and the new tree of a patch call.
\* VNode objects are named by their place: 0 is the old root, NewBase the new
\* root, root + i the i-th child of a root and root + 10 i + j the j-th child
\* of that child.  patch(v, v) is called with the old root as both trees.
MaxKids == 3
MaxPatches == 2
Keys == 1..3

VNode(tag, props, key, children) ==
  [tag |-> tag, props |-> props, key |-> key, children |-> children]
TextDesc(t) == [isV |-> FALSE, text |-> t, node |-> NoTree]
NodeDesc(n) == [isV |-> TRUE, text |-> "", node |-> n]

ClassProp == [key |-> "class", kind |-> "attr"]
OnClickProp == [key |-> "onclick", kind |-> "handler", fn |-> 1]
IdProp == [key |-> "id", kind |-> "attr"]
PropLists == {<<>>, <<ClassProp>>, <<OnClickProp>>, <<ClassProp, OnClickProp>>}

\* the children of the trees patched against themselves: text, unkeyed
\* elements or keyed elements (unique keys); a keyed element has one
\* attribute and one text child
ChildDescs == [kind : {"text"}, key : {0}] \cup [kind : {"el"}, key : {0} \cup Keys]

UniqueKeys(cs) ==
  \A i, j \in 1..Len(cs) : (cs[i].key # 0 /\ cs[i].key = cs[j].key) => i = j

ChildLists ==
  {cs \in UNION {[1..k -> ChildDescs] : k \in 0..MaxKids} : UniqueKeys(cs)}

MkChild(c) ==
  IF c.kind = "text" THEN TextDesc("t")
  ELSE IF c.key = 0 THEN NodeDesc(VNode("li", <<>>, 0, <<>>))
  ELSE NodeDesc(VNode("li", <<IdProp>>, c.key, <<TextDesc("x")>>))

Trees ==
  {VNode(tag, props, 0, [i \in 1..Len(cs) |-> MkChild(cs[i])]) :
     tag \in {"ul", Fragment}, props \in PropLists, cs \in ChildLists}

\* the VNode object vid of the pair of trees v
Loc(vid) == vid % NewBase
RootOf(v, vid) == IF vid >= NewBase THEN v.new ELSE v.old
VNodeAt(v, vid) ==
  IF Loc(vid) = 0 THEN RootOf(v, vid)
  ELSE IF Loc(vid) < 10 THEN RootOf(v, vid).children[Loc(vid)].node
  ELSE RootOf(v, vid).children[Loc(vid) \div 10].node.children[Loc(vid) % 10].node
ChildId(vid, i) ==
  IF Loc(vid) = 0 THEN vid + i ELSE (vid - Loc(vid)) + 10 * Loc(vid) + i

\* vnode.tag, vnode.props, vnode.children, vnode.key of the VNode object vid
VTag(v, vid) == VNodeAt(v, vid).tag
VProps(v, vid) == VNodeAt(v, vid).props
VKey(v, vid) == VNodeAt(v, vid).key
TextChild(t) == [isV |-> FALSE, id |-> 0, text |-> t]
VChildren(v, vid) ==
  [i \in 1..Len(VNodeAt(v, vid).children) |->
     IF VNodeAt(v, vid).children[i].isV
     THEN [isV |-> TRUE, id |-> ChildId(vid, i), text |-> ""]
     ELSE TextChild(VNodeAt(v, vid).children[i].text)]
\* _childrenHaveKeys, computed by createVNode
ChildrenHaveKeys(v, vid) ==
  \E i \in 1..Len(VChildren(v, vid)) :
    VChildren(v, vid)[i].isV /\ VKey(v, VChildren(v, vid)[i].id) # 0

\* the threaded reconciler state
PackDom ==
  [v |-> vnode, el |-> vnodeEl, cmap |-> childNodesMap, parentEl |-> parentEl,
   childNodes |-> childNodes, attributes |-> attributes, listeners |-> listeners,
   handlers |-> eventHandlers, nextW |-> nextWrapper,
   next |-> nextNode, ops |-> <<>>, ret |-> Null, err |-> "none", snap |-> Null]

\* ---- the DOM ----
\* a DOM call that changed the document (or a handler table)
DomOpAt(D, op, parent, node, before) ==
  [D EXCEPT !.ops = Append(D.ops, [op |-> op, node |-> node, parent |-> parent,
                                   before |-> before])]
DomOp(D, op, node) == DomOpAt(D, op, Null, node, Null)

\* a DOM call throws: the state of that moment is what the caller is left with
Raise(D, e) == IF D.err # "none" THEN D ELSE [D EXCEPT !.err = e, !.snap = D]
Final(T) == IF T.err = "none" THEN T ELSE [T.snap EXCEPT !.err = T.err]

\* document.createElement / createTextNode / createDocumentFragment
NewNode(D) ==
  [D EXCEPT !.childNodes = (D.next :> <<>>) @@ D.childNodes,
            !.attributes = (D.next :> {}) @@ D.attributes,
            !.listeners = (D.next :> {}) @@ D.listeners,
            !.handlers = (D.next :> {}) @@ D.handlers,
            !.next = D.next + 1,
            !.ret = D.next]

\* node.parentNode
ParentNode(D, x) ==
  IF \E p \in DOMAIN D.childNodes : x \in SeqToSet(D.childNodes[p])
  THEN CHOOSE p \in DOMAIN D.childNodes : x \in SeqToSet(D.childNodes[p])
  ELSE Null

Without(q, x) == SelectSeq(q, LAMBDA y : y # x)
Detach(cn, x) == [p \in DOMAIN cn |-> Without(cn[p], x)]
DetachAll(cn, xs) ==
  [p \in DOMAIN cn |-> SelectSeq(cn[p], LAMBDA y : y \notin SeqToSet(xs))]

InsertAt(q, xs, anchor) ==
  IF IndexOf(q, anchor) = 0 THEN q \o xs
  ELSE SubSeq(q, 1, IndexOf(q, anchor) - 1) \o xs \o SubSeq(q, IndexOf(q, anchor), Len(q))

\* the node x is the DocumentFragment created for a Fragment VNode
IsFragment(D, x) ==
  x # Null /\ \E vid \in DOMAIN D.el : D.el[vid] = x /\ VTag(D.v, vid) = Fragment

\* the nodes an insertion of x puts into the parent: a DocumentFragment
\* hands its children over and stays empty
Moved(D, x) == IF IsFragment(D, x) THEN D.childNodes[x] ELSE <<x>>

Splice(D, parent, xs, anchor) ==
  [D EXCEPT !.childNodes =
     [DetachAll(D.childNodes, xs) EXCEPT
        ![parent] = InsertAt(DetachAll(D.childNodes, xs)[parent], xs, anchor)]]

\* parent.insertBefore(x, anchor) (anchor null: append)
InsertBefore(D, parent, x, anchor) ==
  IF anchor # Null /\ ParentNode(D, anchor) # parent THEN Raise(D, "NotFoundError")
  ELSE IF x = anchor THEN DomOpAt(D, "insertBefore", parent, x, anchor)
  ELSE DomOpAt(Splice(D, parent, Moved(D, x), anchor), "insertBefore", parent, x, anchor)

AppendChild(D, parent, x) ==
  DomOpAt(Splice(D, parent, Moved(D, x), Null), "appendChild", parent, x, Null)

RemoveChild(D, parent, x) ==
  IF ParentNode(D, x) # parent THEN Raise(D, "NotFoundError")
  ELSE DomOpAt([D EXCEPT !.childNodes[parent] = Without(D.childNodes[parent], x)],
               "removeChild", parent, x, Null)

\* parent.replaceChild(newEl, oldEl); a null parent is a TypeError
ReplaceChild(D, parent, newEl, oldEl) ==
  IF parent = Null THEN Raise(D, "TypeError")
  ELSE IF ParentNode(D, oldEl) # parent THEN Raise(D, "NotFoundError")
  ELSE DomOpAt([Splice(D, parent, Moved(D, newEl), oldEl) EXCEPT
                  !.childNodes[parent] = Without(@, oldEl)],
               "replaceChild", parent, oldEl, newEl)

\* ---- setProp / removeProp ----
\* a prop is [key, kind]: kind "attr" (a key that does not start with 'on'),
\* "handler" (an on* key holding the function fn) or "onString" (an on* key
\* holding a string)
StartsWithOn(prop) == prop.kind \in {"handler", "onString"}
\* key.slice(2).toLowerCase()
EventName(key) == IF key \in {"onClick", "onclick"} THEN "click" ELSE key

\* eventHandlers.get(el)?.get(eventName): the entries of that name (at most one)
Entries(D, el, eventName) == {e \in D.handlers[el] : e.name = eventName}

\* setEventHandler: an existing entry only gets a new current handler; a new
\* entry gets a fresh wrapper, which is registered on the element
SetEventHandler(D, el, eventName, handler) ==
  IF Entries(D, el, eventName) # {}
  THEN DomOp([D EXCEPT !.handlers[el] =
                {IF e.name = eventName THEN [e EXCEPT !.current = handler] ELSE e : e \in @}],
             "handlerCurrent", el)
  ELSE DomOp([D EXCEPT !.handlers[el] =
                         @ \cup {[name |-> eventName, current |-> handler, wrapper |-> D.nextW]},
                       !.listeners[el] = @ \cup {[name |-> eventName, wrapper |-> D.nextW]},
                       !.nextW = @ + 1],
             "addEventListener", el)

\* removeEventHandler: el.removeEventListener(eventName, entry.wrapper);
\* map.delete(eventName)
RemoveEventHandler(D, el, eventName) ==
  IF Entries(D, el, eventName) = {} THEN D
  ELSE DomOp([D EXCEPT !.listeners[el] =
                         @ \ {[name |-> eventName, wrapper |-> e.wrapper] :
                                 e \in Entries(D, el, eventName)},
                       !.handlers[el] = @ \ Entries(D, el, eventName)],
             "removeEventListener", el)

SetProp(D, el, prop) ==
  IF prop.kind = "handler" THEN SetEventHandler(D, el, EventName(prop.key), prop.fn)
  ELSE IF prop.kind = "onString" THEN RemoveEventHandler(D, el, EventName(prop.key))
  ELSE DomOp([D EXCEPT !.attributes[el] = @ \cup {prop.key}], "setAttribute", el)

RemoveProp(D, el, prop) ==
  IF StartsWithOn(prop) THEN RemoveEventHandler(D, el, EventName(prop.key))
  ELSE DomOp([D EXCEPT !.attributes[el] = @ \ {prop.key}], "removeAttribute", el)

RECURSIVE SetProps(_, _, _, _)
SetProps(D, el, props, i) ==
  IF i > Len(props) THEN D
  ELSE SetProps(SetProp(D, el, props[i]), el, props, i + 1)

\* ---- createEl ----
RECURSIVE CreateEl(_, _), CreateChildren(_, _, _, _)

\* the node created for one child is appended and recorded in childEls
AppendCreated(C, vid, parentDom) ==
  [AppendChild(C, parentDom, C.ret) EXCEPT !.cmap[vid] = Append(@, C.ret)]

CreateChildren(D, vid, i, parentDom) ==
  IF i > Len(VChildren(D.v, vid)) THEN D
  ELSE CreateChildren(
         AppendCreated(
           IF VChildren(D.v, vid)[i].isV THEN CreateEl(D, VChildren(D.v, vid)[i].id)
           ELSE NewNode(D),
           vid, parentDom),
         vid, i + 1, parentDom)

\* vnode.el = el (or the DocumentFragment); props; children
CreateElInit(N, vid) ==
  IF VTag(N.v, vid) = Fragment THEN [N EXCEPT !.el[vid] = N.ret, !.cmap[vid] = <<>>]
  ELSE SetProps([N EXCEPT !.el[vid] = N.ret, !.cmap[vid] = <<>>], N.ret, VProps(N.v, vid), 1)

CreateElReturn(C, vid) == [C EXCEPT !.ret = C.el[vid]]

CreateElBody(N, vid) == CreateElReturn(CreateChildren(CreateElInit(N, vid), vid, 1, N.ret), vid)

CreateEl(D, vid) == CreateElBody(NewNode(D), vid)

\* ---- diff.ts: getSequence, on 0-based indices as in the source ----
\* arr, result are sequences (element k stands for index k - 1), p a function
RECURSIVE BinarySearch(_, _, _, _, _)
BinarySearch(arr, result, lo, hi, val) ==
  IF lo < hi
  THEN IF arr[result[((lo + hi) \div 2) + 1] + 1] < val
       THEN BinarySearch(arr, result, ((lo + hi) \div 2) + 1, hi, val)
       ELSE BinarySearch(arr, result, lo, (lo + hi) \div 2, val)
  ELSE lo

RECURSIVE SequenceLoop(_, _, _, _)
SequenceReplaceNever(arr, i, result, p, lo) ==
  SequenceLoop(arr, i + 1, result, p)

\* if (val < arr[result[lo]]) { if (lo > 0) p[i] = result[lo - 1]; result[lo] = i }
SequenceReplace(arr, i, result, p, lo) ==
  IF arr[i + 1] < arr[result[lo + 1] + 1]
  THEN SequenceLoop(arr, i + 1, [result EXCEPT ![lo + 1] = i],
                    IF lo > 0 THEN [p EXCEPT ![i] = result[lo]] ELSE p)
  ELSE SequenceLoop(arr, i + 1, result, p)

SequenceLoop(arr, i, result, p) ==
  IF i >= Len(arr) THEN [result |-> result, p |-> p]
  ELSE IF arr[i + 1] < 0 THEN SequenceLoop(arr, i + 1, result, p)
  ELSE IF arr[result[Len(result)] + 1] < arr[i + 1]
  THEN SequenceLoop(arr, i + 1, Append(result, i), [p EXCEPT ![i] = result[Len(result)]])
  ELSE SequenceReplace(arr, i, result, p,
                       BinarySearch(arr, result, 0, Len(result) - 1, arr[i + 1]))

RECURSIVE Backtrack(_, _, _, _)
\* while (u-- > 0) { result[u] = v; v = p[v] }   (p[v] may be undefined)
Backtrack(result, p, u, v) ==
  IF u = 0 THEN result
  ELSE Backtrack([result EXCEPT ![u] = v], p, u - 1,
                 IF v \in DOMAIN p THEN p[v] ELSE Undef)

BacktrackFrom(r) == Backtrack(r.result, r.p, Len(r.result), r.result[Len(r.result)])

getSequence(arr) ==
  BacktrackFrom(SequenceLoop(arr, 0, <<0>>, [k \in 0..(Len(arr) - 1) |-> Undef]))

\* ---- patch ----
RECURSIVE Patch(_, _, _, _)

\* first loop of patch: props of the old tree that the new one lacks
RECURSIVE RemoveOldProps(_, _, _, _, _)
HasKey(props, key) == \E k \in 1..Len(props) : props[k].key = key
RemoveOldProps(D, el, oldProps, newProps, i) ==
  IF i > Len(oldProps) THEN D
  ELSE RemoveOldProps(
         IF ~HasKey(newProps, oldProps[i].key) THEN RemoveProp(D, el, oldProps[i]) ELSE D,
         el, oldProps, newProps, i + 1)

\* second loop: if (oldProps[key] !== newProps[key] || key.startsWith('on'))
RECURSIVE SetNewProps(_, _, _, _, _)
SameValue(oldProps, prop) == \E k \in 1..Len(oldProps) : oldProps[k] = prop
SetNewProps(D, el, oldProps, newProps, i) ==
  IF i > Len(newProps) THEN D
  ELSE SetNewProps(
         IF ~SameValue(oldProps, newProps[i]) \/ StartsWithOn(newProps[i])
         THEN SetProp(D, el, newProps[i]) ELSE D,
         el, oldProps, newProps, i + 1)

\* createEl(child) or document.createTextNode(String(child))
CreateChild(D, child) == IF child.isV THEN CreateEl(D, child.id) ELSE NewNode(D)

\* ---- patchNonKeyedChildren ----
RECURSIVE NonKeyedLoop(_, _, _, _, _, _, _)
PushEl(D, newDomNodes, vid) == [D EXCEPT !.ret = Append(newDomNodes, D.el[vid])]

\* parent.replaceChild(created, oldNode); newDomNodes.push(created)
ReplaceCreated(C, parent, oldNode, newDomNodes) ==
  [ReplaceChild(C, parent, C.ret, oldNode) EXCEPT !.ret = Append(newDomNodes, C.ret)]

AppendNewNoPush(C, parent, newDomNodes) ==
  [AppendChild(C, parent, C.ret) EXCEPT !.ret = newDomNodes]

\* parent.appendChild(created); newDomNodes.push(created)
AppendNew(C, parent, newDomNodes) ==
  [AppendChild(C, parent, C.ret) EXCEPT !.ret = Append(newDomNodes, C.ret)]

\* else if (oldChild !== newChild) ... else keep the same DOM node
NonKeyedText(D, oldVNode, newVNode, parent, i, oldDomNodes, newDomNodes) ==
  IF VChildren(D.v, oldVNode)[i] # VChildren(D.v, newVNode)[i]
  THEN IF i <= Len(oldDomNodes)
       THEN ReplaceCreated(CreateChild(D, VChildren(D.v, newVNode)[i]), parent,
                           oldDomNodes[i], newDomNodes)
       ELSE AppendNew(CreateChild(D, VChildren(D.v, newVNode)[i]), parent, newDomNodes)
  ELSE [D EXCEPT !.ret = Append(newDomNodes, oldDomNodes[i])]

NonKeyedStep(D, oldVNode, newVNode, parent, i, oldDomNodes, newDomNodes) ==
  IF VChildren(D.v, oldVNode)[i].isV /\ VChildren(D.v, newVNode)[i].isV
  THEN PushEl(Patch(D, VChildren(D.v, oldVNode)[i].id, VChildren(D.v, newVNode)[i].id, parent),
              newDomNodes, VChildren(D.v, newVNode)[i].id)
  ELSE NonKeyedText(D, oldVNode, newVNode, parent, i, oldDomNodes, newDomNodes)

NonKeyedNext(T, oldVNode, newVNode, parent, i, oldDomNodes) ==
  NonKeyedLoop(T, oldVNode, newVNode, parent, i + 1, oldDomNodes, T.ret)

\* for (i = 0; i < commonLen; i++)
NonKeyedLoop(D, oldVNode, newVNode, parent, i, oldDomNodes, newDomNodes) ==
  IF i > Len(VChildren(D.v, newVNode)) \/ i > Len(VChildren(D.v, oldVNode))
  THEN [D EXCEPT !.ret = newDomNodes]
  ELSE NonKeyedNext(NonKeyedStep(D, oldVNode, newVNode, parent, i, oldDomNodes, newDomNodes),
                    oldVNode, newVNode, parent, i, oldDomNodes)

\* for (i = commonLen; i < newLen; i++): append the surplus new children
RECURSIVE AddLoop(_, _, _, _)
AddNext(T, newVNode, parent, i) == AddLoop(T, newVNode, parent, i + 1)
AddLoop(D, newVNode, parent, i) ==
  IF i > Len(VChildren(D.v, newVNode)) THEN D
  ELSE AddNext(AppendNew(CreateChild(D, VChildren(D.v, newVNode)[i]), parent, D.ret),
               newVNode, parent, i)

\* for (i = oldLen - 1; i >= newLen; i--): remove the surplus old children;
\* ret (newDomNodes) is kept
RECURSIVE RemoveExtra(_, _, _, _, _)
RemoveExtra(D, oldDomNodes, parent, newLen, i) ==
  IF i <= newLen THEN D
  ELSE RemoveExtra(
         IF i <= Len(oldDomNodes) /\ ParentNode(D, oldDomNodes[i]) = parent
         THEN RemoveChild(D, parent, oldDomNodes[i]) ELSE D,
         oldDomNodes, parent, newLen, i - 1)

NonKeyedAfterCommon(T, oldVNode, newVNode, parent, oldDomNodes) ==
  RemoveExtra(
    AddLoop(T, newVNode, parent, Len(VChildren(T.v, oldVNode)) + 1),
    oldDomNodes, parent, Len(VChildren(T.v, newVNode)), Len(VChildren(T.v, oldVNode)))

patchNonKeyedChildren(D, oldVNode, newVNode, parent) ==
  NonKeyedAfterCommon(
    NonKeyedLoop(D, oldVNode, newVNode, parent, 1, D.cmap[oldVNode], <<>>),
    oldVNode, newVNode, parent, D.cmap[oldVNode])

\* ---- patchKeyedChildren ----
\* oldKeyMap.get(key): the last old child with that key (0-based index, Undef
\* if none)
OldIndex(v, oldVNode, key) ==
  IF \E i \in 1..Len(VChildren(v, oldVNode)) :
       VChildren(v, oldVNode)[i].isV /\ VKey(v, VChildren(v, oldVNode)[i].id) = key
  THEN Max({i \in 1..Len(VChildren(v, oldVNode)) :
              VChildren(v, oldVNode)[i].isV /\ VKey(v, VChildren(v, oldVNode)[i].id) = key}) - 1
  ELSE Undef

\* the walk over the new children: acc = [dom, used, lis] are newDomNodes,
\* usedOldIndices and oldIndicesForLIS
RECURSIVE KeyedLoop(_, _, _, _, _, _)
ReusedAsNew(P, acc, newChild, oldIndex) ==
  [P EXCEPT !.ret = [dom |-> Append(acc.dom, P.el[newChild]),
                     used |-> acc.used \cup {oldIndex},
                     lis |-> Append(acc.lis, -1)]]

\* usedOldIndices.add(oldIndex); newDomNodes.push(newChild.el); push(oldIndex)
Reused(P, acc, newChild, oldIndex) ==
  [P EXCEPT !.ret = [dom |-> Append(acc.dom, P.el[newChild]),
                     used |-> acc.used \cup {oldIndex},
                     lis |-> Append(acc.lis, oldIndex)]]

Created(C, acc) ==
  [C EXCEPT !.ret = [dom |-> Append(acc.dom, C.ret), used |-> acc.used,
                     lis |-> Append(acc.lis, -1)]]

KeyedStep(D, oldVNode, child, parent, acc) ==
  IF child.isV /\ VKey(D.v, child.id) # 0 /\ OldIndex(D.v, oldVNode, VKey(D.v, child.id)) # Undef
  THEN Reused(Patch(D, VChildren(D.v, oldVNode)[OldIndex(D.v, oldVNode, VKey(D.v, child.id)) + 1].id,
                    child.id, parent),
              acc, child.id, OldIndex(D.v, oldVNode, VKey(D.v, child.id)))
  ELSE IF child.isV THEN Created(CreateEl(D, child.id), acc)
  ELSE Created(NewNode(D), acc)

KeyedNext(T, oldVNode, newVNode, parent, i) ==
  KeyedLoop(T, oldVNode, newVNode, parent, i + 1, T.ret)

KeyedLoop(D, oldVNode, newVNode, parent, i, acc) ==
  IF i > Len(VChildren(D.v, newVNode)) THEN [D EXCEPT !.ret = acc]
  ELSE KeyedNext(KeyedStep(D, oldVNode, VChildren(D.v, newVNode)[i], parent, acc),
                 oldVNode, newVNode, parent, i)

\* for (i = 0; i < oldCh.length; i++) if (!usedOldIndices.has(i)) removeChild
RECURSIVE RemoveUnused(_, _, _, _, _, _)
RemoveUnused(D, oldLen, oldDomNodes, used, parent, i) ==
  IF i >= oldLen THEN D
  ELSE RemoveUnused(
         IF i \notin used /\ i + 1 <= Len(oldDomNodes)
            /\ ParentNode(D, oldDomNodes[i + 1]) = parent
         THEN RemoveChild(D, parent, oldDomNodes[i + 1]) ELSE D,
         oldLen, oldDomNodes, used, parent, i + 1)

\* for (i = newDomNodes.length - 1; i >= 0; i--): insert new, move unstable
RECURSIVE InsertLoop(_, _, _, _, _, _)
InsertLoop(D, newDomNodes, lis, stableSet, parent, i) ==
  IF i < 0 THEN D
  ELSE InsertLoop(
         IF lis[i + 1] = -1 \/ i \notin stableSet
         THEN InsertBefore(D, parent, newDomNodes[i + 1],
                           IF i + 1 < Len(newDomNodes) THEN newDomNodes[i + 2] ELSE Null)
         ELSE D,
         newDomNodes, lis, stableSet, parent, i - 1)

KeyedFinish(R, acc) == [R EXCEPT !.ret = acc.dom]

KeyedAfterLoop(T, oldVNode, oldDomNodes, parent) ==
  KeyedFinish(
    InsertLoop(
      RemoveUnused(T, Len(VChildren(T.v, oldVNode)), oldDomNodes, T.ret.used, parent, 0),
      T.ret.dom, T.ret.lis, SeqToSet(getSequence(T.ret.lis)), parent, Len(T.ret.dom) - 1),
    T.ret)

patchKeyedChildren(D, oldVNode, newVNode, parent) ==
  KeyedAfterLoop(
    KeyedLoop(D, oldVNode, newVNode, parent, 1, [dom |-> <<>>, used |-> {}, lis |-> <<>>]),
    oldVNode, D.cmap[oldVNode], parent)

patchChildren(D, oldVNode, newVNode, parent) ==
  IF ChildrenHaveKeys(D.v, oldVNode) \/ ChildrenHaveKeys(D.v, newVNode)
  THEN patchKeyedChildren(D, oldVNode, newVNode, parent)
  ELSE patchNonKeyedChildren(D, oldVNode, newVNode, parent)

\* childNodesMap.set(newVNode, newChildEls)
SetChildEls(T, newVNode) == [T EXCEPT !.cmap[newVNode] = T.ret]

\* for (child of childEls) child.parentNode?.removeChild(child)
RECURSIVE RemoveEach(_, _, _)
RemoveEach(D, nodes, i) ==
  IF i > Len(nodes) THEN D
  ELSE RemoveEach(
         IF ParentNode(D, nodes[i]) # Null
         THEN RemoveChild(D, ParentNode(D, nodes[i]), nodes[i]) ELSE D,
         nodes, i + 1)

\* oldVNode._parentEl ?? container
RealParent(D, vid, container) ==
  IF D.parentEl[vid] # Null THEN D.parentEl[vid] ELSE container

\* tags differ, Fragment -> element: the new element is inserted before the
\* first member node, then the member nodes are removed
FragmentToElement(C, parent, childEls) ==
  RemoveEach(InsertBefore(C, parent, C.ret, IF childEls # <<>> THEN childEls[1] ELSE Null),
             childEls, 1)

\* tags differ, element -> Fragment: the members are inserted before the old
\* element, which is then removed
ElementToFragment(C, newVNode, parent, oldEl) ==
  RemoveChild(InsertBefore([C EXCEPT !.parentEl[newVNode] = parent], parent, C.ret, oldEl),
              parent, oldEl)

\* tags differ, element -> element: the new element replaces the old
PatchReplace(C, oldEl) == ReplaceChild(C, ParentNode(C, oldEl), C.ret, oldEl)

PatchTagChange(D, oldVNode, newVNode, container) ==
  IF VTag(D.v, oldVNode) = Fragment
  THEN FragmentToElement(CreateEl(D, newVNode), RealParent(D, oldVNode, container),
                         D.cmap[oldVNode])
  ELSE IF VTag(D.v, newVNode) = Fragment
  THEN ElementToFragment(CreateEl(D, newVNode), newVNode,
                         IF ParentNode(D, D.el[oldVNode]) # Null
                         THEN ParentNode(D, D.el[oldVNode]) ELSE container,
                         D.el[oldVNode])
  ELSE PatchReplace(CreateEl(D, newVNode), D.el[oldVNode])

Patch(D, oldVNode, newVNode, container) ==
  IF VTag(D.v, oldVNode) # VTag(D.v, newVNode)
  THEN PatchTagChange(D, oldVNode, newVNode, container)
  ELSE IF VTag(D.v, oldVNode) = Fragment
  THEN SetChildEls(
         patchChildren([D EXCEPT !.el[newVNode] = D.el[oldVNode],
                                 !.parentEl[newVNode] = RealParent(D, oldVNode, container)],
                       oldVNode, newVNode, RealParent(D, oldVNode, container)),
         newVNode)
  ELSE SetChildEls(
         patchChildren(
           SetNewProps(
             RemoveOldProps([D EXCEPT !.el[newVNode] = D.el[oldVNode]], D.el[oldVNode],
                            VProps(D.v, oldVNode), VProps(D.v, newVNode), 1),
             D.el[oldVNode], VProps(D.v, oldVNode), VProps(D.v, newVNode), 1),
           oldVNode, newVNode, D.el[oldVNode]),
         newVNode)

\* ---- mount(v, container), patch(old, new, container), unmount(v) ----
CommitDom(T) ==
  /\ vnodeEl' = T.el
  /\ childNodesMap' = T.cmap
  /\ parentEl' = T.parentEl
  /\ childNodes' = T.childNodes
  /\ attributes' = T.attributes
  /\ listeners' = T.listeners
  /\ eventHandlers' = T.handlers
  /\ nextWrapper' = T.nextW
  /\ nextNode' = T.next
  /\ domOps' = T.ops
  /\ domErr' = T.err
  /\ UNCHANGED vnode

reactiveVars == <<prog, mode, value, initialized, state, version, sources,
                  sourcesVersions, observers, computing, created, handle, disposed,
                  cleanup, currentConsumer, trackingStack, depth, bqPending,
                  pendingEffects, flushing, notifying, dirtyFlag,
                  writes, log, lastOp, lastErr, fnRuns, fnDone, lastRet, enqueued>>

\* if (vnode.tag === Fragment) vnode._parentEl = container
MountParent(T, container) ==
  IF VTag(T.v, 0) = Fragment THEN [T EXCEPT !.parentEl[0] = container] ELSE T

MountAppend(C, container) == MountParent(AppendChild(C, container, C.ret), container)

Mount ==
  /\ ~mounted /\ nextNode = Container + 1
  /\ CommitDom(Final(MountAppend(CreateEl(PackDom, 0), Container)))
  /\ mounted' = TRUE
  /\ UNCHANGED patches
  /\ UNCHANGED reactiveVars
  /\ UNCHANGED diffVars

PatchSame ==
  /\ mounted
  /\ patches < MaxPatches
  /\ CommitDom(Final(Patch(PackDom, 0, 0, Container)))
  /\ patches' = patches + 1
  /\ UNCHANGED mounted
  /\ UNCHANGED reactiveVars
  /\ UNCHANGED diffVars

InitPatch ==
  /\ mode = "queue" /\ InitGraph /\ prog = "queue"
  /\ \E v \in Trees : InitDom(v, NoTree)
  /\ InitDiff(<<>>, <<>>)

NextPatch == Mount \/ PatchSame

SpecPatch == InitPatch /\ [][NextPatch]_vars

\* the tree on the document: the new tree once patch(old, new) has been called
CurrentRoot == IF patches > 0 THEN NewBase ELSE 0

\* patch(old, new, container), once
PatchNew ==
  /\ mounted
  /\ patches = 0
  /\ CommitDom(Final(Patch(PackDom, 0, NewBase, Container)))
  /\ patches' = 1
  /\ UNCHANGED mounted
  /\ UNCHANGED reactiveVars
  /\ UNCHANGED diffVars

\* unmount(vnode)
unmount(D, vid) ==
  IF VTag(D.v, vid) = Fragment THEN RemoveEach(D, D.cmap[vid], 1)
  ELSE IF D.el[vid] # Null /\ ParentNode(D, D.el[vid]) # Null
  THEN RemoveChild(D, ParentNode(D, D.el[vid]), D.el[vid])
  ELSE D

Unmount ==
  /\ mounted
  /\ CommitDom(Final(unmount(PackDom, CurrentRoot)))
  /\ mounted' = FALSE
  /\ UNCHANGED patches
  /\ UNCHANGED reactiveVars
  /\ UNCHANGED diffVars

NextReconcile == Mount \/ PatchNew \/ Unmount

\* ======================= diff.ts: diffKeys ==============================
MaxKeys == 4
DiffKeySet == 1..MaxKeys

\* duplicate-free key lists
KeyLists ==
  {q \in UNION {[1..k -> DiffKeySet] : k \in 0..MaxKeys} :
     \A i, j \in 1..Len(q) : q[i] = q[j] => i = j}

\* oldKeyMap.get(key): the (0-based) index set last for the key, or undefined
KeyIndex(keys, key) ==
  IF \E i \in 1..Len(keys) : keys[i] = key
  THEN Max({i \in 1..Len(keys) : keys[i] = key}) - 1
  ELSE Undef

\* oldIndicesForLIS: the old index of each new key, -1 for a key not in oldKeys
OldIndicesForLIS(o, n) ==
  [i \in 1..Len(n) |-> IF KeyIndex(o, n[i]) # Undef THEN KeyIndex(o, n[i]) ELSE -1]

UsedOldIndices(o, n) ==
  {KeyIndex(o, n[i]) : i \in 1..Len(n)} \ {Undef}

DiffOp(type, key, newIndex, oldIndex) ==
  [type |-> type, key |-> key, newIndex |-> newIndex, oldIndex |-> oldIndex]

\* for (i < oldKeys.length) if (!usedOldIndices.has(i)) push remove
RemoveOps(o, used) ==
  SelectSeq([i \in 1..Len(o) |-> DiffOp("remove", o[i], Undef, i - 1)],
            LAMBDA op : op.oldIndex \notin used)

\* for (i < newKeys.length): insert for -1, move when i is not in stableSet
InsertMoveOps(n, lis, stableSet) ==
  SelectSeq([i \in 1..Len(n) |->
               IF lis[i] = -1 THEN DiffOp("insert", n[i], i - 1, Undef)
               ELSE IF (i - 1) \notin stableSet THEN DiffOp("move", n[i], i - 1, lis[i])
               ELSE DiffOp("none", n[i], i - 1, lis[i])],
            LAMBDA op : op.type # "none")

diffKeys(o, n) ==
  RemoveOps(o, UsedOldIndices(o, n))
    \o InsertMoveOps(n, OldIndicesForLIS(o, n),
                     SeqToSet(getSequence(OldIndicesForLIS(o, n))))

DiffKeysOp ==
  /\ ~diffed
  /\ diffOps' = diffKeys(oldKeys, newKeys)
  /\ diffed' = TRUE
  /\ UNCHANGED <<oldKeys, newKeys, oldIndices, sequence>>
  /\ UNCHANGED reactiveVars
  /\ UNCHANGED domVars

InitDiffKeys ==
  /\ mode = "queue" /\ InitGraph /\ prog = "queue"
  /\ InitDom(NoTree, NoTree)
  /\ \E o \in KeyLists : \E n \in KeyLists : InitDiff(o, n)

NextDiffKeys == DiffKeysOp

SpecDiffKeys == InitDiffKeys /\ [][NextDiffKeys]_vars

\* ---- getSequence(arr) on arrays of old indices, -1 for a new node ----
MaxArr == 4
MaxOldIndex == 3

OldIndexArrays == UNION {[1..k -> -1..MaxOldIndex] : k \in 0..MaxArr}

InitSequence ==
  /\ mode = "queue" /\ InitGraph /\ prog = "queue"
  /\ InitDom(NoTree, NoTree)
  /\ oldKeys = <<>> /\ newKeys = <<>> /\ diffOps = <<>> /\ diffed = FALSE
  /\ oldIndices \in OldIndexArrays
  /\ sequence = <<>>

GetSequenceOp ==
  /\ ~diffed
  /\ sequence' = getSequence(oldIndices)
  /\ diffed' = TRUE
  /\ UNCHANGED <<oldKeys, newKeys, diffOps, oldIndices>>
  /\ UNCHANGED reactiveVars
  /\ UNCHANGED domVars

NextSequence == GetSequenceOp

SpecSequence == InitSequence /\ [][NextSequence]_vars

\* ---- keyed children: h('ul', null, h('li', {key}, 'x'), ...) ----
\* with alt, the child of key 1 is a 'p' (a reused key whose tag changed)
KeyedChild(key, alt) ==
  NodeDesc(VNode(IF alt /\ key = 1 THEN "p" ELSE "li", <<>>, key, <<TextDesc("x")>>))

KeyedTree(keys, alt) ==
  VNode("ul", <<>>, 0, [i \in 1..Len(keys) |-> KeyedChild(keys[i], alt)])

\* oldKeys and newKeys are the keys of the old and the new children
InitKeyed ==
  /\ mode = "queue" /\ InitGraph /\ prog = "queue"
  /\ \E o \in KeyLists : \E n \in KeyLists : \E alt \in BOOLEAN :
       InitDom(KeyedTree(o, FALSE), KeyedTree(n, alt)) /\ InitDiff(o, n)

SpecKeyed == InitKeyed /\ [][NextReconcile]_vars

\* ---- children without keys: h('div', null, 'a', h('li', null, 'x'), ...) ----
PlainKinds == {"a", "b", "li", "lix", "p"}

PlainChild(c) ==
  IF c \in {"a", "b"} THEN TextDesc(c)
  ELSE IF c = "lix" THEN NodeDesc(VNode("li", <<>>, 0, <<TextDesc("x")>>))
  ELSE NodeDesc(VNode(c, <<>>, 0, <<>>))

PlainLists == UNION {[1..k -> PlainKinds] : k \in 0..MaxKids}

PlainTree(cs) == VNode("div", <<>>, 0, [i \in 1..Len(cs) |-> PlainChild(cs[i])])

InitNonKeyed ==
  /\ mode = "queue" /\ InitGraph /\ prog = "queue"
  /\ \E o \in PlainLists : \E n \in PlainLists : InitDom(PlainTree(o), PlainTree(n))
  /\ InitDiff(<<>>, <<>>)

SpecNonKeyed == InitNonKeyed /\ [][NextReconcile]_vars

\* ---- Fragments: h(Fragment, null, ...members) at the root, or as the first
\* child of a 'div', alone or followed by the text 'c' ----
MaxMembers == 2
MemberKinds == {"a", "b", "li"}
MemberLists == UNION {[1..k -> MemberKinds] : k \in 0..MaxMembers}

FragmentNode(ms) == VNode(Fragment, <<>>, 0, [i \in 1..Len(ms) |-> PlainChild(ms[i])])

Tails == {<<>>, <<TextDesc("c")>>}

FragmentTrees ==
  {FragmentNode(ms) : ms \in MemberLists}
    \cup {VNode("div", <<>>, 0, <<NodeDesc(FragmentNode(ms))>> \o tail) :
            ms \in MemberLists, tail \in Tails}
    \cup {VNode("div", <<>>, 0, tail) : tail \in Tails}

InitFragment ==
  /\ mode = "queue" /\ InitGraph /\ prog = "queue"
  /\ \E o \in FragmentTrees : \E n \in FragmentTrees : InitDom(o, n)
  /\ InitDiff(<<>>, <<>>)

SpecFragment == InitFragment /\ [][NextReconcile]_vars

\* ---- event handlers: h('button', props), patched by one tree after another ----
MaxEventPatches == 3
\* the functions used as handlers
HandlerFns == {1, 2}
OnKeys == {"onClick", "onclick"}
EventProps ==
  {[key |-> k, kind |-> "handler", fn |-> f] : k \in OnKeys, f \in HandlerFns}
    \cup {[key |-> k, kind |-> "onString"] : k \in OnKeys}
\* props objects: own keys in insertion order, no key twice
EventPropLists ==
  {ps \in UNION {[1..k -> EventProps] : k \in 0..2} :
     \A i, j \in 1..Len(ps) : ps[i].key = ps[j].key => i = j}
EventTrees == {VNode("button", props, 0, <<>>) : props \in EventPropLists}

InitEvents ==
  /\ mode = "queue" /\ InitGraph /\ prog = "queue"
  /\ \E t \in EventTrees : InitDom(t, NoTree)
  /\ InitDiff(<<>>, <<>>)

\* the caller keeps the new tree as the old tree of its next patch
Promote(T) ==
  [T EXCEPT !.v = [old |-> T.v.new, new |-> NoTree],
            !.el = [i \in DOMAIN T.el |-> IF i >= NewBase THEN Null ELSE T.el[i + NewBase]],
            !.cmap = [i \in DOMAIN T.cmap |-> IF i >= NewBase THEN <<>> ELSE T.cmap[i + NewBase]],
            !.parentEl = [i \in DOMAIN T.parentEl |->
                            IF i >= NewBase THEN Null ELSE T.parentEl[i + NewBase]]]

CommitTree(T) ==
  /\ vnode' = T.v
  /\ vnodeEl' = T.el
  /\ childNodesMap' = T.cmap
  /\ parentEl' = T.parentEl
  /\ childNodes' = T.childNodes
  /\ attributes' = T.attributes
  /\ listeners' = T.listeners
  /\ eventHandlers' = T.handlers
  /\ nextWrapper' = T.nextW
  /\ nextNode' = T.next
  /\ domOps' = T.ops
  /\ domErr' = T.err

\* patch(current, next, container) with a new tree next
PatchNext ==
  /\ mounted
  /\ patches < MaxEventPatches
  /\ \E t \in EventTrees :
       CommitTree(Promote(Final(Patch([PackDom EXCEPT !.v = [old |-> vnode.old, new |-> t]],
                                      0, NewBase, Container))))
  /\ patches' = patches + 1
  /\ UNCHANGED mounted
  /\ UNCHANGED reactiveVars
  /\ UNCHANGED diffVars

NextEvents == Mount \/ PatchNext

SpecEvents == InitEvents /\ [][NextEvents]_vars



\* ---- observation helpers over the event log of the last operation ----
LogIdx(t, n) == {i \in 1..Len(log) : log[i].t = t /\ log[i].n = n}
RunCount(e) == Cardinality(LogIdx("run", e))
Live(e) == handle[e] /\ ~disposed[e]

\* C1: in signalReactive, on the diamond source -> {left, right} -> autorun
\* (reading both directly, node 5, or through combined, node 6), one
\* value-changing top-level source.set(v) runs each live autorun body exactly
\* once more, that run sees left and right computed from the new value, and
\* no run of any operation sees a pair mixing old and new source values.
C1_DiamondNoGlitch ==
  (mode = "strategy" /\ prog = "diamond") =>
    /\ \A i \in 1..Len(log) : log[i].t = "run" => log[i].seen = log[i].truth
    /\ (lastOp.op = "set" /\ lastOp.changed /\ lastOp.d = 0) =>
         \A e \in {5, 6} : Live(e) =>
           /\ RunCount(e) = 1
           /\ \A i \in LogIdx("run", e) :
                log[i].seen = IF e = 5 THEN <<value[1] + 1, 2 * value[1]>>
                              ELSE <<(value[1] + 1) + 2 * value[1]>>

C1_Witness ==
  /\ mode = "strategy" /\ prog = "diamond" /\ lastOp.op = "set" /\ lastOp.changed /\ lastOp.d = 0
  /\ Live(5) /\ Live(6) /\ RunCount(5) = 1 /\ RunCount(6) = 1
  /\ value[1] = 1


\* ---- further observation helpers ----
Strategy == mode = "strategy"
Events(t) == {i \in 1..Len(log) : log[i].t = t}
\* the last operation was the exit of an outermost batch(fn)
OutermostExit == lastOp.op = "batchExit" /\ lastOp.d = 1
\* some source recorded by node n has a version other than the one n saw
SourceChanged(n) ==
  \E i \in 1..Len(sources[n]) :
    i > Len(sourcesVersions[n]) \/ version'[sources[n][i]] # sourcesVersions[n][i]
Pending(e) == e \in SeqToSet(pendingEffects)

\* C2: in signalReactive no body of an already-created autorun runs while
\* the batch depth is above zero (the only run at depth > 0 is the first run
\* of the autorun being created), and within one operation every onWrite /
\* propagateDirty has completed before the first effect body starts.
C2_NoRunInsideBatch ==
  Strategy =>
    /\ \A i \in Events("run") :
         log[i].d = 0 \/ (lastOp.op = "create" /\ log[i].n = lastOp.n /\ RunCount(log[i].n) = 1)
    /\ \A i \in Events("run"), j \in Events("onWrite") \cup Events("propagated") : j < i
    /\ depth > 0 /\ lastOp.op # "create" => Events("run") = {} /\ Events("drained") = {}

C2_Witness ==
  /\ Strategy /\ OutermostExit /\ depth = 0 /\ writes = MaxWrites
  /\ Events("run") # {} /\ \A i \in Events("run") : log[i].d = 0

\* C3 as stated: at the exit of an outermost batch every live autorun that a
\* write of the batch reached (it is pending) runs exactly once.
C3_ExactlyOnce ==
  [][(Strategy /\ OutermostExit')
       => \A e \in Nodes : (Live(e) /\ Pending(e)) => RunCount(e)' = 1]_vars

\* C4: leaving an inner batch while an outer one is open (batch(fn) inside
\* batch(fn), or the batch that signal.set opens inside batch(fn)) runs no
\* pending callback and no effect and keeps the pending sets; the pending set
\* is drained only when the depth returns to 0, and then completely.
C4_NestedTransparent ==
  [][Strategy =>
       /\ (lastOp'.op \in {"batchExit", "set"} /\ depth' > 0) =>
            /\ Events("drained")' = {} /\ Events("run")' = {}
            /\ \A f \in SeqToSet(bqPending) : f \in SeqToSet(bqPending')
            /\ \A e \in SeqToSet(pendingEffects) : e \in SeqToSet(pendingEffects')
       /\ (lastOp'.op = "batchExit" /\ depth' > 0) =>
            /\ depth' = depth - 1 /\ log' = <<>>
            /\ bqPending' = bqPending /\ pendingEffects' = pendingEffects
       /\ \A i \in Events("drained")' : log'[i].d = 0
       /\ (lastOp'.op = "batchExit" /\ depth' = 0) =>
            /\ bqPending' = <<>> /\ pendingEffects' = <<>>
            /\ Cardinality(Events("drained")') = Len(bqPending)]_vars

C4_Witness ==
  /\ Strategy /\ lastOp.op = "batchExit" /\ lastOp.d = 2 /\ depth = 1
  /\ bqPending # <<>> /\ pendingEffects # <<>>

\* a value an effect obtained is the one a full recomputation gives, up to
\* the equality predicate of the node it read
Fresh(i) ==
  \A k \in 1..Len(log[i].seen) :
    Equals(EqualsOpt(prog, Reads(prog, log[i].n)[k]), log[i].seen[k], log[i].truth[k])

\* C5 as stated: with either scheduler, in every graph, every value an
\* Effect body run obtains is computed from the current source values.
C5_NoStaleRead ==
  \A i \in Events("run") : Fresh(i)

\* C5 (amended): with signalReactive's scheduling (effects deferred to the end
\* of the batch-wrapped write) every value an Effect body run obtains is
\* computed from the current source values; with the default immediate
\* scheduler an effect that is a direct observer of the written source can run
\* during propagation and obtain a stale Derived value.
C5_NoStaleReadDeferred ==
  Strategy => \A i \in Events("run") : Fresh(i)

C5_Witness ==
  /\ Strategy /\ prog = "chain" /\ lastOp.op = "set" /\ lastOp.changed /\ lastOp.n = 1
  /\ lastOp.d = 0 /\ RunCount(4) = 1
  /\ \A i \in LogIdx("run", 4) : log[i].seen = <<value[1] + 2, value[1], value[5]>>

\* C6: once an effect is disposed it stays disposed, its body and its cleanup
\* never run again in any later operation (also when it was pending at the
\* moment of disposal), and a second dispose() changes nothing.
C6_DisposeFinal ==
  [][\A e \in Nodes : disposed[e] =>
       /\ disposed'[e]
       /\ LogIdx("run", e)' = {} /\ LogIdx("cleanup", e)' = {}
       /\ (lastOp'.op = "dispose" /\ lastOp'.n = e) =>
            /\ log' = <<>>
            /\ UNCHANGED <<value, state, version, sources, sourcesVersions, observers,
                           disposed, cleanup, pendingEffects, bqPending, depth>>]_vars

C6_Witness ==
  /\ Strategy /\ OutermostExit /\ \E e \in Nodes : disposed[e] /\ LogIdx("execDisposed", e) # {}

\* C7: a and b read each other (nodes 2 and 3 of the cycle program): every
\* get()/peek() that forces them to recompute, and the creation of an effect
\* that reads a, ends with the circular-dependency error; after any operation
\* no node is left with its recomputation-in-progress flag set and no
\* tracking context is left open.
C7_CircularDetected ==
  /\ \A n \in Nodes : ~computing[n]
  /\ currentConsumer = Null /\ trackingStack = <<>>
  /\ prog = "cycle" =>
       /\ (lastOp.op \in {"get", "peek"} /\ lastOp.n \in {2, 3}) => lastErr = "circular"
       /\ (lastOp.op = "create" /\ lastOp.n = 6) => lastErr = "circular"
       /\ lastErr = "circular" => (lastOp.n \in {2, 3, 6} /\ fnRuns[2] + fnRuns[3] > 0)

C7_Witness ==
  /\ prog = "cycle" /\ lastOp.op = "get" /\ lastOp.n = 2 /\ lastErr = "circular"
  /\ LogIdx("compute", 2) # {} /\ LogIdx("compute", 3) # {}

\* C8 as stated: a Derived's function runs only inside get()/peek(), when
\* the node is found DIRTY, and at most once in total between two
\* value-changing writes to a transitive source.
C8_LazyMemoized ==
  /\ lastOp.op = "init" => \A n \in Nodes : ~initialized[n] /\ fnRuns[n] = 0
  /\ \A i \in Events("compute") : log[i].g > 0 /\ log[i].seen = <<DIRTY>>
  /\ \A n \in Nodes : fnRuns[n] <= 1

\* C8 (amended): a Derived's function is not run at construction; it runs
\* only during a pull - inside a get()/peek() or inside the updateIfNecessary
\* of an Effect that is about to execute - on a node found DIRTY; between two
\* value-changing writes to a transitive source it returns at most once (a
\* run that throws leaves the node DIRTY, and the next get() runs it again).
C8_LazyMemoizedPull ==
  /\ lastOp.op = "init" => \A n \in Nodes : ~initialized[n] /\ fnRuns[n] = 0
  /\ \A i \in Events("compute") : (log[i].g > 0 \/ log[i].x > 0) /\ log[i].seen = <<DIRTY>>
  /\ \A n \in Nodes : fnDone[n] <= 1
  /\ \A n \in Nodes : fnRuns[n] > 1 => (state[n] = DIRTY /\ fnDone[n] = 0)

\* a get() of a memoized Derived after a write: the function is not run
C8_Witness ==
  /\ lastOp.op = "get" /\ Events("compute") = {} /\ lastErr = "none"
  /\ fnDone[lastOp.n] = 1 /\ state[lastOp.n] = CLEAN /\ writes > 0

\* C9: a Derived whose recomputation gives a value equal to the cached one
\* under its equality predicate keeps its version; after a top-level write, a
\* live Effect that was CLEAN and none of whose recorded sources has a new
\* version is CLEAN again without its body having run, and a Derived that
\* was CLEAN with no recorded source of a new version does not run its
\* function.
C9_EqualityCutoff ==
  [][/\ \A n \in Nodes :
          (Kind(prog, n) = "computed" /\ initialized[n] /\ version'[n] # version[n])
            => ~Equals(EqualsOpt(prog, n), value[n], value'[n])
     /\ (lastOp'.op = "set" /\ lastOp'.d = 0) =>
          \A n \in Nodes :
            (state[n] = CLEAN /\ sources[n] # <<>> /\ ~SourceChanged(n)) =>
               /\ Kind(prog, n) = "effect" /\ Live(n) =>
                    RunCount(n)' = 0 /\ state'[n] = CLEAN
               /\ Kind(prog, n) = "computed" => LogIdx("compute", n)' = {}]_vars

C9_Witness ==
  /\ prog = "equal" /\ lastOp.op = "set" /\ lastOp.changed /\ lastOp.d = 0
  /\ LogIdx("verifiedClean", 6) # {} /\ LogIdx("compute", 3) # {} /\ RunCount(6) = 0
  /\ value[3] # value[1] + value[5]

\* number of value changes of node n in the last operation: writes of a
\* source that passed the equality test, one for a Derived whose
\* recomputation stored a value
Changes(n) ==
  IF Kind(prog, n) = "source" THEN Cardinality({i \in 1..Len(log') : log'[i].t = "onWrite" /\ log'[i].n = n})
  ELSE IF version[n] # version'[n] THEN 1 ELSE 0

\* v + k in 32-bit two's complement
WrapAdd(v, k) ==
  IF v > MaxInt32 - k THEN MinInt32 + (k - 1 - (MaxInt32 - v)) ELSE v + k

\* C10 as stated: no version ever decreases; a version changes only with a
\* value that differs under the equality predicate (compared over the
\* operations that change the node once); set() with an equal value
\* changes no version, marks no node and calls neither onWrite nor a subscriber.
C10_Monotonic ==
  [][/\ \A n \in Nodes : version'[n] >= version[n]
     /\ \A n \in Nodes : Changes(n) = 1 =>
          (~initialized[n] /\ Kind(prog, n) = "computed")
          \/ ~Equals(EqualsOpt(prog, n), value[n], value'[n])
     /\ (lastOp'.op = "set" /\ ~lastOp'.changed) =>
          log' = <<>> /\ UNCHANGED <<version, state, value, observers, sources>>]_vars

\* C10 (amended): a version never decreases except that the 32-bit counter
\* wraps from 2147483647 to -2147483648; it changes, by one step per value
\* change of the operation, only with a value that differs under the
\* equality predicate (or a first computation; compared over the operations
\* that change the node once);
\* set() with an equal value changes no version, marks no node and calls
\* neither onWrite nor a subscriber.
C10_MonotonicWrap ==
  [][/\ \A n \in Nodes :
          \/ version'[n] >= version[n]
          \/ version[n] > MaxInt32 - Changes(n) /\ version'[n] < MinInt32 + Changes(n)
     /\ \A n \in Nodes : version'[n] = WrapAdd(version[n], Changes(n))
     /\ \A n \in Nodes : Changes(n) = 1 =>
          (~initialized[n] /\ Kind(prog, n) = "computed")
          \/ ~Equals(EqualsOpt(prog, n), value[n], value'[n])
     /\ (lastOp'.op = "set" /\ ~lastOp'.changed) =>
          log' = <<>> /\ UNCHANGED <<version, state, value, observers, sources>>]_vars

C10_Witness ==
  /\ lastOp.op = "set" /\ ~lastOp.changed /\ version[1] = MinInt32 /\ log = <<>>

\* the list q holds no element twice
NoDup(q) == \A i, j \in 1..Len(q) : q[i] = q[j] => i = j

\* C11: after every operation (tracked reads, recomputations, effect re-runs,
\* exceptions inside tracked functions, disposals) node b is in
\* observers[a] exactly when a is in sources[b], and no observers or
\* sources list holds a node twice.
C11_BidirectionalEdges ==
  /\ \A a, b \in Nodes : b \in SeqToSet(observers[a]) <=> a \in SeqToSet(sources[b])
  /\ \A n \in Nodes : NoDup(observers[n]) /\ NoDup(sources[n])

\* after a write whose flush ended with the exception of effect 5, effect 6,
\* which reads source 1 twice in its body, holds one edge to it
C11_Witness ==
  /\ prog = "throwing" /\ lastOp.op = "set" /\ lastErr = "bodyError"
  /\ RunCount(6) = 0 /\ sources[6] = <<1>> /\ sources[5] = <<1>>
  /\ SeqToSet(observers[1]) = {5, 6}

\* calls of the callback f in the last operation
CallbackRuns(f) ==
  Cardinality({i \in 1..Len(log) : log[i].t = "callback" /\ log[i].seen = <<f>>})

\* C12: BatchQueue: enqueue(f) at depth > 0 calls nothing and leaves f
\* pending; entering a batch or leaving an inner one calls nothing; the exit
\* of the outermost batch calls each callback enqueued (once or several
\* times) since the batch began exactly once and no other, and empties the
\* pending set; enqueue(f) at depth 0 calls f, and only f, at once.
C12_OnceAtDepthZero ==
  [][prog = "queue" =>
       /\ (lastOp'.op = "enqueue" /\ depth > 0) =>
            /\ \A f \in Callbacks : CallbackRuns(f)' = 0
            /\ lastOp'.v \in SeqToSet(bqPending') /\ NoDup(bqPending')
       /\ (lastOp'.op = "enqueue" /\ depth = 0) =>
            /\ \A f \in Callbacks : CallbackRuns(f)' = IF f = lastOp'.v THEN 1 ELSE 0
            /\ bqPending' = <<>>
       /\ (lastOp'.op = "batchEnter" \/ (lastOp'.op = "batchExit" /\ depth > 1)) =>
            /\ \A f \in Callbacks : CallbackRuns(f)' = 0
            /\ bqPending' = bqPending
       /\ (lastOp'.op = "batchExit" /\ depth = 1) =>
            /\ \A f \in Callbacks : CallbackRuns(f)' = IF enqueued[f] > 0 THEN 1 ELSE 0
            /\ bqPending' = <<>> /\ depth' = 0]_vars

\* an outermost batch in which cbC was enqueued twice and cbA never has ended
C12_Witness ==
  /\ prog = "queue" /\ lastOp.op = "batchExit" /\ lastOp.d = 1
  /\ enqueued["cbC"] = MaxEnqueues /\ CallbackRuns("cbC") = 1
  /\ enqueued["cbA"] = 0 /\ CallbackRuns("cbA") = 0

Thrower(f) == CallbackThrows(f) # "none"
IsReported(ev) == ev.t = "reported"

\* the errors reported with console.error in the last operation, in order
ReportedErrors ==
  [i \in 1..Len(SelectSeq(log, IsReported)) |-> SelectSeq(log, IsReported)[i].seen[1]]

\* C13: at the exit of the outermost batch of a BatchQueue every pending
\* callback is called once whether or not earlier ones threw; the error of
\* the first pending callback that throws is the one thrown to the caller of
\* batch(), the errors of the later ones are reported, in order, and not
\* thrown; afterwards depth is 0 and the pending set is empty.
C13_DrainErrorPolicy ==
  [][(prog = "queue" /\ lastOp'.op = "batchExit" /\ depth = 1) =>
       /\ \A f \in Callbacks :
            CallbackRuns(f)' = IF f \in SeqToSet(bqPending) THEN 1 ELSE 0
       /\ lastErr' = IF SelectSeq(bqPending, Thrower) = <<>> THEN "none"
                     ELSE CallbackThrows(SelectSeq(bqPending, Thrower)[1])
       /\ ReportedErrors' =
            [i \in 1..(Len(SelectSeq(bqPending, Thrower)) - 1) |->
               CallbackThrows(SelectSeq(bqPending, Thrower)[i + 1])]
       /\ depth' = 0 /\ bqPending' = <<>>]_vars

\* a drain in which cbB threw first, cbA threw second and cbC still ran
C13_Witness ==
  /\ prog = "queue" /\ lastOp.op = "batchExit" /\ lastOp.d = 1
  /\ lastErr = "errB" /\ ReportedErrors = <<"errA">>
  /\ \A f \in Callbacks : CallbackRuns(f) = 1
  /\ depth = 0 /\ bqPending = <<>>
  /\ \E i, j \in 1..Len(log) : /\ i < j /\ log[i].t = "reported"
                                 /\ log[j].t = "callback" /\ log[j].seen = <<"cbC">>

\* C14 as stated: in signalReactive, when the flush of a top-level set() or
\* of an outermost batch exit ends with the exception of an effect body,
\* every live effect that was pending for that flush with a directly written
\* source (it is DIRTY) has run once in it.
C14_FlushRunsAll ==
  [][(Strategy /\ lastErr' = "bodyError") =>
       /\ (lastOp'.op = "batchExit" /\ depth = 1) =>
            \A e \in Nodes : (Live(e) /\ Pending(e) /\ state[e] = DIRTY) => RunCount(e)' = 1
       /\ (lastOp'.op = "set" /\ depth = 0) =>
            \A e \in SeqToSet(observers[lastOp'.n]) :
              (Kind(prog, e) = "effect" /\ Live(e)) => RunCount(e)' = 1]_vars

\* notification passes over the subscribers of s in the last operation
\* (calls of its first subscriber) and the values the k-th subscriber got
Passes(s) ==
  Cardinality({i \in 1..Len(log) : log[i].t = "subscriber" /\ log[i].n = s /\ log[i].seen[2] = 1})

IsCeiling(ev) == ev.t = "notifyCeiling"

\* C15: a value-changing top-level set(v) on the signal whose subscriber
\* always writes value + 1 back returns without an error after
\* SignalMaxIterations (100) notification passes, reports the ceiling once,
\* leaves the value of the last re-entrant write (v + 100) and resets the
\* notifying and dirty flags; the same holds for the set() after it.
C15_BoundedReentrance ==
  [][(prog = "subs" /\ lastOp'.op = "set" /\ lastOp'.n = 1 /\ lastOp'.changed) =>
       /\ Passes(1)' = SignalMaxIterations
       /\ Len(SelectSeq(log', IsCeiling)) = 1
       /\ log'[Len(log')].t = "notifyCeiling"
       /\ value'[1] = lastOp'.v + SignalMaxIterations
       /\ ~notifying'[1] /\ ~dirtyFlag'[1]
       /\ lastErr' = "none"]_vars

\* the second set() on that signal has hit the ceiling again
C15_Witness ==
  /\ prog = "subs" /\ lastOp.op = "set" /\ lastOp.n = 1 /\ lastOp.changed
  /\ writes = 2 /\ version[1] = 2 * (SignalMaxIterations + 1)
  /\ Passes(1) = SignalMaxIterations /\ ~notifying[1]
  /\ \E i \in 1..Len(log) : log[i].t = "notifyCeiling"

\* the calls of the subscribers of source 2 in the last operation, in order
IsSub2(ev) == ev.t = "subscriber" /\ ev.n = 2
SubCalls2 == SelectSeq(log, IsSub2)
NSubs2 == Len(Subscribers("subs", 2))

\* value-changing writes of source s in the last operation
Writes(s) == Cardinality(LogIdx("onWrite", s))

\* C16: a value-changing top-level set() on the signal whose second
\* subscriber writes v + 1 back while v < ConvergeAt: the subscribers are
\* called pass by pass in subscription order, never nested (the k-th call is
\* that of subscriber ((k-1) mod 3) + 1); a re-entrant write is committed at
\* once (the subscriber called after it in the same pass gets the new value)
\* and causes one more pass that starts with that value; in the last pass
\* every subscriber gets the final value; the number of passes equals the
\* number of values written, and the ceiling is not reported.
C16_ReentrantSetDeferred ==
  [][(prog = "subs" /\ lastOp'.op = "set" /\ lastOp'.n = 2 /\ lastOp'.changed) =>
       /\ Len(SubCalls2') = NSubs2 * Passes(2)'
       /\ \A k \in 1..Len(SubCalls2') : SubCalls2'[k].seen[2] = ((k - 1) % NSubs2) + 1
       /\ Passes(2)' = Writes(2)'
       /\ \A k \in 1..Len(SubCalls2') :
            /\ (k % NSubs2 = 1 /\ k > 1) => SubCalls2'[k].seen[1] = SubCalls2'[k - 1].seen[1]
            /\ k % NSubs2 = 0 =>
                 SubCalls2'[k].seen[1] =
                   IF SubCalls2'[k - 1].seen[1] < ConvergeAt
                   THEN SubCalls2'[k - 1].seen[1] + 1 ELSE SubCalls2'[k - 1].seen[1]
            /\ k > Len(SubCalls2') - NSubs2 => SubCalls2'[k].seen[1] = value'[2]
       /\ SubCalls2'[1].seen[1] = lastOp'.v
       /\ value'[2] = ConvergeAt
       /\ SelectSeq(log', IsCeiling) = <<>>
       /\ ~notifying'[2] /\ ~dirtyFlag'[2]]_vars

\* set(0) on the signal that had converged to 3: four passes for the four
\* values 0, 1, 2, 3
C16_Witness ==
  /\ prog = "subs" /\ lastOp.op = "set" /\ lastOp.n = 2 /\ lastOp.changed /\ lastOp.v = 0
  /\ Passes(2) = 4 /\ Writes(2) = 4 /\ value[2] = ConvergeAt
  /\ Len(SubCalls2) = 12 /\ SubCalls2[12].seen = <<ConvergeAt, 3>>

\* calls of the k-th subscriber of source s in the last operation
SubscriberCalls(s, k) ==
  Cardinality({i \in 1..Len(log) : log[i].t = "subscriber" /\ log[i].n = s /\ log[i].seen[2] = k})

\* C17 as stated: a value-changing set() on the signal whose second of three
\* subscribers throws calls every subscriber once, and the error of the
\* throwing subscriber is thrown to the caller of set().
C17_SubscriberErrorPropagated ==
  [][(prog = "subs" /\ lastOp'.op = "set" /\ lastOp'.n = 3 /\ lastOp'.changed) =>
       /\ \A k \in 1..Len(Subscribers("subs", 3)) : SubscriberCalls(3, k)' = 1
       /\ lastErr' = "subscriberError"]_vars

\* positions of the events t of node n in the event log lg
IdxIn(lg, t, n) == {i \in 1..Len(lg) : lg[i].t = t /\ lg[i].n = n}
\* the runs of effect e logged before position i
PrevRuns(lg, e, i) == {j \in IdxIn(lg, "run", e) : j < i}
\* the run logged at position i returned a cleanup function
RunReturned(lg, i) ==
  ReturnsCleanup(prog, lg[i].n) /\ ~BodyThrows(prog, lg[i].n, lg[i].seen)
CleanupBetween(lg, e, a, b) == \E k \in IdxIn(lg, "cleanup", e) : a < k /\ k < b
\* the last run of e completed before position i returned a cleanup function
\* (was: what the last run before this operation returned)
ReturnedBefore(lg, e, i, was) ==
  IF PrevRuns(lg, e, i) = {} THEN was ELSE RunReturned(lg, Max(PrevRuns(lg, e, i)))
LastRunBefore(lg, e, i) ==
  IF PrevRuns(lg, e, i) = {} THEN 0 ELSE Max(PrevRuns(lg, e, i))

\* C18: createEffect runs the body once before it returns; every later run
\* whose previous run returned a cleanup function is preceded, after that
\* previous run, by a call of the cleanup; dispose() of a not yet disposed
\* effect whose last completed run returned a cleanup function calls it at
\* once (also when dispose is called from inside the running body).
C18_CleanupProtocol ==
  [][/\ lastOp'.op = "create" =>
          Cardinality(IdxIn(log', "run", lastOp'.n)) = 1 /\ IdxIn(log', "cleanup", lastOp'.n) = {}
     /\ \A e \in Nodes : \A i \in IdxIn(log', "run", e) :
          (lastOp'.op # "create" /\ ReturnedBefore(log', e, i, lastRet[e])) =>
            CleanupBetween(log', e, LastRunBefore(log', e, i), i)
     /\ \A e \in Nodes : \A i \in IdxIn(log', "dispose", e) :
          ReturnedBefore(log', e, i, lastRet[e]) =>
            /\ i < Len(log') /\ log'[i + 1].t = "cleanup" /\ log'[i + 1].n = e
     /\ \A e \in Nodes : (lastOp'.op = "dispose" /\ lastOp'.n = e /\ ~disposed[e]) =>
          /\ IdxIn(log', "dispose", e) # {} /\ ~cleanup'[e]
          /\ lastRet[e] => Cardinality(IdxIn(log', "cleanup", e)) = 1]_vars

\* a write has re-run effect 5, whose previous run had returned a cleanup:
\* the cleanup was called first
C18_Witness ==
  /\ lastOp.op = "set" /\ lastOp.changed /\ Live(5) /\ lastRet[5] /\ cleanup[5]
  /\ \E i \in LogIdx("cleanup", 5) : \E j \in LogIdx("run", 5) : i < j

\* C19 as stated: once an operation has returned, a disposed effect is in no
\* observers list and its sources list is empty.
C19_DisposedUnreachable ==
  \A e \in Nodes : disposed[e] =>
    /\ sources[e] = <<>>
    /\ \A n \in Nodes : e \notin SeqToSet(observers[n])

\* ---------------------------------------------------------------------------
\* the mutations of the live document: attribute writes and child-list changes
MutatingOps ==
  {"setAttribute", "removeAttribute", "insertBefore", "appendChild",
   "removeChild", "replaceChild"}

\* C20 as stated: for every mounted tree v (elements and text, keyed children,
\* keyed children mixed with unkeyed or text siblings, Fragments), patch(v, v)
\* sets or removes no attribute and performs no insertion, removal, replacement
\* or move of any live node.
C20_PatchSameNoOp ==
  patches > 0 => \A i \in 1..Len(domOps) : domOps[i].op \notin MutatingOps


\* ---------------------------------------------------------------------------
\* observation of a diffKeys result
OpsOf(type) == {i \in 1..Len(diffOps) : diffOps[i].type = type}
OpKeys(type) == {diffOps[i].key : i \in OpsOf(type)}
OnePerKey(type) == Cardinality(OpsOf(type)) = Cardinality(OpKeys(type))
\* the reused keys, and the old index of a key
ReusedKeys == SeqToSet(oldKeys) \cap SeqToSet(newKeys)
OldPos(k) == CHOOSE i \in 1..Len(oldKeys) : oldKeys[i] = k
NewPos(k) == CHOOSE i \in 1..Len(newKeys) : newKeys[i] = k
\* the keys of K keep their relative order from oldKeys to newKeys
Increasing(K) == \A a, b \in K : NewPos(a) < NewPos(b) => OldPos(a) < OldPos(b)
LISLength == Max({Cardinality(K) : K \in {L \in SUBSET ReusedKeys : Increasing(L)}})

\* C21: diffKeys on duplicate-free key lists returns one remove per key only
\* in oldKeys, one insert per key only in newKeys and one move per reused key
\* outside a longest increasing subsequence of the reused old indices taken
\* in new order (reused count minus LIS length moves), nothing else; identical
\* lists yield no operation, disjoint lists n removes and m inserts.
C21_DiffKeysExact ==
  diffed =>
    /\ \A i \in 1..Len(diffOps) : diffOps[i].type \in {"remove", "insert", "move"}
    /\ OnePerKey("remove") /\ OpKeys("remove") = SeqToSet(oldKeys) \ SeqToSet(newKeys)
    /\ OnePerKey("insert") /\ OpKeys("insert") = SeqToSet(newKeys) \ SeqToSet(oldKeys)
    /\ OnePerKey("move") /\ OpKeys("move") \subseteq ReusedKeys
    /\ Increasing(ReusedKeys \ OpKeys("move"))
    /\ Cardinality(OpKeys("move")) = Cardinality(ReusedKeys) - LISLength
    /\ \A i \in OpsOf("remove") : diffOps[i].oldIndex = OldPos(diffOps[i].key) - 1
    /\ \A i \in OpsOf("insert") : diffOps[i].newIndex = NewPos(diffOps[i].key) - 1
    /\ \A i \in OpsOf("move") :
         /\ diffOps[i].newIndex = NewPos(diffOps[i].key) - 1
         /\ diffOps[i].oldIndex = OldPos(diffOps[i].key) - 1
    /\ oldKeys = newKeys => diffOps = <<>>
    /\ ReusedKeys = {} => /\ Cardinality(OpsOf("remove")) = Len(oldKeys)
                      /\ Cardinality(OpsOf("insert")) = Len(newKeys)
                      /\ Len(diffOps) = Len(oldKeys) + Len(newKeys)

\* a diff with a removed, an inserted, a moved and a stable key
C21_Witness ==
  /\ diffed
  /\ OpsOf("remove") # {} /\ OpsOf("insert") # {} /\ OpsOf("move") # {}
  /\ ReusedKeys \ OpKeys("move") # {}


\* ---------------------------------------------------------------------------
\* observation of patch(old, new, container) on keyed children
Patched == mounted /\ patches = 1
\* the live node of the i-th new / old child
NewChildEl(i) == vnodeEl[NewBase + i]
OldChildEl(i) == vnodeEl[i]
NewChildEls == [i \in 1..Len(vnode.new.children) |-> NewChildEl(i)]
\* the insertBefore calls on the children of the patched parent
Inserts == {i \in 1..Len(domOps) : domOps[i].op = "insertBefore"}
InsertedNodes == {domOps[i].node : i \in Inserts}
\* the node that follows x in the new children (Null after the last)
Following(x) ==
  IF IndexOf(NewChildEls, x) < Len(NewChildEls)
  THEN NewChildEls[IndexOf(NewChildEls, x) + 1] ELSE Null
\* the reused keys whose node was not passed to an insert
StableKeys == {k \in ReusedKeys : NewChildEl(NewPos(k)) \notin InsertedNodes}
SameTag(k) == VTag(vnode, OldPos(k)) = VTag(vnode, NewBase + NewPos(k))

\* the parts of C22 that do not depend on the tags of the reused children
KeyedPatchOrder ==
  /\ domErr = "none"
  /\ childNodes[vnodeEl[NewBase]] = NewChildEls
  /\ Cardinality(Inserts) = Cardinality(InsertedNodes)
  /\ \A i \in 1..Len(newKeys) : newKeys[i] \notin ReusedKeys => NewChildEl(i) \in InsertedNodes
  /\ InsertedNodes \subseteq SeqToSet(NewChildEls)
  /\ Increasing(StableKeys) /\ Cardinality(StableKeys) = LISLength
  /\ \A i \in Inserts : domOps[i].before = Following(domOps[i].node)

\* C22 as stated: after patch of children lists with unique keys the parent's
\* live children are, in order, the nodes of the new children; every reused
\* key keeps its original live node; reused nodes in the longest increasing
\* subsequence are never passed to an insert, every other reused or new node
\* is inserted exactly once before the node that follows it in the new list.
C22_KeyedPatch ==
  Patched =>
    /\ KeyedPatchOrder
    /\ \A k \in ReusedKeys : NewChildEl(NewPos(k)) = OldChildEl(OldPos(k))

\* C22 amended: as C22, but a reused key keeps its original live node only
\* when its tag is unchanged; a reused key whose tag changed gets a new node,
\* which has replaced the old one in the parent.
C22_KeyedPatchSameTag ==
  Patched =>
    /\ KeyedPatchOrder
    /\ \A k \in ReusedKeys :
         IF SameTag(k) THEN NewChildEl(NewPos(k)) = OldChildEl(OldPos(k))
         ELSE /\ NewChildEl(NewPos(k)) # OldChildEl(OldPos(k))
              /\ \A p \in DOMAIN childNodes : OldChildEl(OldPos(k)) \notin SeqToSet(childNodes[p])

\* a patch that removed a key, inserted a new one, moved a reused one and
\* left a reused one in place
C22_Witness ==
  /\ Patched
  /\ SeqToSet(oldKeys) \ SeqToSet(newKeys) # {}
  /\ SeqToSet(newKeys) \ SeqToSet(oldKeys) # {}
  /\ ReusedKeys \ StableKeys # {}
  /\ StableKeys # {}


\* ---------------------------------------------------------------------------
\* observation of patch(old, new, container) on children without keys
\* the side-table entries of the old and of the new root, the patched parent
OldSide == childNodesMap[0]
NewSide == childNodesMap[NewBase]
OldKids == VChildren(vnode, 0)
NewKids == VChildren(vnode, NewBase)
CommonLen == IF Len(OldKids) < Len(NewKids) THEN Len(OldKids) ELSE Len(NewKids)
\* the position of a DOM call in the calls of the patch (0: not called)
OpAt(op, node, before) ==
  IndexOf(domOps, [op |-> op, node |-> node, parent |-> vnodeEl[0], before |-> before])
\* old and new child of position i are two texts of equal content or two
\* VNodes of equal tag
SameKind(i) ==
  IF OldKids[i].isV /\ NewKids[i].isV
  THEN VTag(vnode, OldKids[i].id) = VTag(vnode, NewKids[i].id)
  ELSE OldKids[i] = NewKids[i]
\* the calls that change the child list of the patched parent
OnParent == {i \in 1..Len(domOps) : domOps[i].parent = vnodeEl[0]}

RECURSIVE ObserversOf(_, _, _)
ObserversOf(obs, A, fuel) ==
  IF fuel = 0 THEN A
  ELSE ObserversOf(obs, A \cup UNION {SeqToSet(obs[a]) : a \in A}, fuel - 1)

\* the returns of propagateDirty in the last operation
Propagations == {i \in 1..Len(log) : log[i].t = "propagated" /\ log[i].err = "none"}
Direct(e) == SeqToSet(e.obs[e.n])
Downstream(e) == ObserversOf(e.obs, Direct(e), NN)

\* C24 as stated: when propagateDirty(source) returns, every direct observer
\* of source is DIRTY, every other node reachable from source through
\* observers is CHECK or DIRTY, no node's state is lower than at the call,
\* and notify() was called on every Effect whose state was raised.
C24_PropagateDirty ==
  \A i \in Propagations :
    /\ \A o \in Direct(log[i]) : log[i].after[o] = DIRTY
    /\ \A o \in Downstream(log[i]) : log[i].after[o] \in {CHECK, DIRTY}
    /\ \A n \in Nodes : log[i].after[n] >= log[i].before[n]
    /\ \A n \in Effects : log[i].after[n] > log[i].before[n] => n \in SeqToSet(log[i].hooks)

\* ---------------------------------------------------------------------------
\* the returns of updateIfNecessary in the last operation, the events of one
\* call, and the compute() calls made by its own loop
Pulls == {i \in 1..Len(log) : log[i].t = "pulled" /\ log[i].err = "none"}
Inside(i) == (log[i].from + 1)..(i - 1)
OwnComputes(i) ==
  {j \in Inside(i) : log[j].t = "compute" /\ log[j].g = log[i].g /\ log[j].x = log[i].x}
Recomputes(i) == {j \in OwnComputes(i) : log[j].n = log[i].n}
\* the states and versions when the scan of the sources of log[i].n ended
DecisionAt(i) ==
  IF Recomputes(i) # {}
  THEN [st |-> log[Max(Recomputes(i))].st, ver |-> log[Max(Recomputes(i))].ver]
  ELSE [st |-> log[i].after, ver |-> log[i].verAfter]
ChangedAt(i, k) ==
  k > Len(log[i].snap) \/ DecisionAt(i).ver[log[i].srcs[k]] # log[i].snap[k]
SourceChanges(i) == {k \in 1..Len(log[i].srcs) : ChangedAt(i, k)}

\* a CLEAN node is untouched
PullClean(i) ==
  log[i].before[log[i].n] = CLEAN =>
    /\ Inside(i) = {}
    /\ log[i].after = log[i].before
    /\ log[i].verAfter = log[i].verBefore
    /\ log[i].valAfter = log[i].valBefore

\* a CHECK node is recomputed iff a source version differs from the snapshot
PullDecision(i) ==
  log[i].before[log[i].n] = CHECK =>
    IF Kind(prog, log[i].n) = "computed"
    THEN /\ Recomputes(i) # {} <=> SourceChanges(i) # {}
         /\ Recomputes(i) = {} => log[i].after[log[i].n] = CLEAN
    ELSE /\ Recomputes(i) = {}
         /\ log[i].after[log[i].n] = IF SourceChanges(i) # {} THEN DIRTY ELSE CLEAN

\* the sources 1..m are up to date when the scan ends
SourcesClean(i, m) ==
  \A k \in 1..m : DecisionAt(i).st[log[i].srcs[k]] = CLEAN

\* a source is recomputed after the sources before it are up to date
PullOrder(i) ==
  log[i].before[log[i].n] = CHECK =>
    \A j \in OwnComputes(i) : \A k \in 1..Len(log[i].srcs) :
      (log[j].n = log[i].srcs[k] /\ \A r \in Recomputes(i) : j < r) =>
        \A b \in 1..(k - 1) : log[j].st[log[i].srcs[b]] = CLEAN

\* no effect body runs inside the pull, a DIRTY effect stays DIRTY
PullNoEffect(i) ==
  /\ \A j \in Inside(i) : log[j].t # "run"
  /\ (Kind(prog, log[i].n) = "effect" /\ log[i].before[log[i].n] = DIRTY) =>
       log[i].after[log[i].n] = DIRTY

\* C25 as stated: updateIfNecessary(n) leaves a CLEAN node untouched; for a
\* CHECK node every recorded source that is not CLEAN is brought up to date
\* first, in source order, and then n is recomputed if and only if a source
\* version differs from n's snapshot, otherwise n becomes CLEAN without
\* recomputing; no effect body runs and a DIRTY effect stays DIRTY.
C25_Pull ==
  \A i \in Pulls :
    /\ PullClean(i) /\ PullDecision(i) /\ PullOrder(i) /\ PullNoEffect(i)
    /\ log[i].before[log[i].n] = CHECK => SourcesClean(i, Len(log[i].srcs))

\* C25 amended: as C25, but the scan of a CHECK node's sources stops at the
\* first source whose version differs from the snapshot: the sources up to
\* that one are brought up to date first, in source order, the later ones
\* are not looked at before n is recomputed.
C25_PullUpToFirstChange ==
  \A i \in Pulls :
    /\ PullClean(i) /\ PullDecision(i) /\ PullOrder(i) /\ PullNoEffect(i)
    /\ log[i].before[log[i].n] = CHECK =>
         SourcesClean(i, IF SourceChanges(i) = {} THEN Len(log[i].srcs)
                         ELSE CHOOSE k \in SourceChanges(i) : \A c \in SourceChanges(i) : k <= c)

\* a CHECK computed whose first source was DIRTY is recomputed after that
\* source, while its second source is still not CLEAN
C25_Witness ==
  \E i \in Pulls :
    /\ log[i].before[log[i].n] = CHECK
    /\ Kind(prog, log[i].n) = "computed"
    /\ Recomputes(i) # {}
    /\ Len(log[i].srcs) = 2
    /\ log[i].before[log[i].srcs[1]] = DIRTY
    /\ \E j \in OwnComputes(i) : log[j].n = log[i].srcs[1]
    /\ DecisionAt(i).st[log[i].srcs[2]] # CLEAN

\* ---------------------------------------------------------------------------
\* the completed effect bodies of the last operation and the events of one
Runs == {i \in 1..Len(log) : log[i].t = "run"}
InRun(i) == (log[i].from + 1)..(i - 1)
\* the body of run i wrote to a source it had read and still observed
WritesOwnSource(i) ==
  \E j \in InRun(i) :
    /\ log[j].t = "propagated"
    /\ log[j].n \in SeqToSet(log[i].sources)
    /\ log[i].n \in Direct(log[j])

\* C26: the body of an effect is never entered while an earlier invocation of
\* it is still running; a write made during the body (by the body or by an
\* effect it triggered) to a source the effect reads does not notify the
\* running effect, and the operation returns without an exception.
C26_NoReentrance ==
  /\ lastErr = "none"
  /\ \A i \in Runs :
       /\ ~log[i].nested
       /\ \A j \in InRun(i) :
            log[j].t = "propagated" => log[i].n \notin SeqToSet(log[j].hooks)

\* an effect body wrote a changed value to the source it reads
C26_Witness ==
  /\ lastErr = "none"
  /\ \E i \in Runs :
       /\ WritesOwnSource(i)
       /\ \E j \in InRun(i) : log[j].t = "onWrite" /\ log[j].n \in SeqToSet(log[i].sources)
                               /\ log[j].x = log[i].x

\* ---------------------------------------------------------------------------
\* the nodes a function read when it returned the values seen
ReadNodes(n, seen) == {Resolve(Reads(prog, n)[k], seen) : k \in 1..Len(seen)}
\* a sequence without duplicates holding exactly the elements of A
Lists(q, A) == SeqToSet(q) = A /\ Len(q) = Cardinality(A)
\* the functions that ran to their end in log q
Completed(q) ==
  {i \in 1..Len(q) : q[i].t = "computed" \/ (q[i].t = "run" /\ Len(q[i].seen) = Len(Reads(prog, q[i].n)))}
\* effects and computeds that have run and are not disposed
Tracking(n) == n \in Computeds \cup Effects /\ sources[n] # <<>> /\ ~disposed[n]
RanIn(q, n) == \E i \in 1..Len(q) : q[i].t \in {"run", "compute"} /\ q[i].n = n

\* what one operation does to the dependencies
DynamicDepsStep ==
  /\ \A i \in Completed(log') : Lists(log'[i].sources, ReadNodes(log'[i].n, log'[i].seen))
  /\ (lastOp'.op = "set" /\ lastOp'.changed
       /\ Cardinality({i \in 1..Len(log') : log'[i].t = "onWrite"}) = 1) =>
       \A n \in Nodes : Tracking(n) =>
         IF lastOp'.n \in SeqToSet(sources[n])
         THEN IF n \in Effects
              THEN RanIn(log', n) \/ (depth > 0 /\ n \in SeqToSet(pendingEffects'))
              ELSE RanIn(log', n) \/ state'[n] = DIRTY
         ELSE ~RanIn(log', n) /\ state'[n] = state[n] /\ sources'[n] = sources[n]

\* C27 as stated: after each completed run of an effect or computed its
\* sources are exactly the nodes it read in that run; a changed set() of a
\* signal that is not among them does not re-run it, and a changed set() of
\* one of them does (an effect runs before the top-level set() returns, or
\* is pending inside a batch; a computed is DIRTY for its next get()).
C27_DynamicDeps == [][DynamicDepsStep]_vars

\* ---------------------------------------------------------------------------
\* observation of the live nodes of a tree with Fragments
\* the live nodes the children i.. of the VNode vid stand for: the member
\* nodes of a Fragment child, the node of any other child
RECURSIVE LiveKids(_, _)
LiveKids(vid, i) ==
  IF i > Len(VChildren(vnode, vid)) THEN <<>>
  ELSE (IF VChildren(vnode, vid)[i].isV /\ VTag(vnode, VChildren(vnode, vid)[i].id) = Fragment
        THEN childNodesMap[VChildren(vnode, vid)[i].id]
        ELSE <<childNodesMap[vid][i]>>) \o LiveKids(vid, i + 1)
\* every entry of the side table of vid is there for a child of vid
Tracked(vid) == Len(childNodesMap[vid]) = Len(VChildren(vnode, vid))

\* C30 as stated: for a Fragment mounted at the root of a container or nested
\* as a child of an element (possibly followed by sibling nodes), mount and
\* patch leave exactly the Fragment's member nodes, contiguous and in
\* new-children order, at the Fragment's position in the real parent, and
\* unmount or removal of the Fragment removes all of its member nodes.
C30_FragmentTracked ==
  /\ domErr = "none"
  /\ mounted =>
       /\ \A vid \in {CurrentRoot} \cup {CurrentRoot + 1} : vid \in DOMAIN vnodeEl => Tracked(vid)
       /\ IF VTag(vnode, CurrentRoot) = Fragment
          THEN childNodes[Container] = LiveKids(CurrentRoot, 1)
          ELSE /\ childNodes[Container] = <<vnodeEl[CurrentRoot]>>
               /\ childNodes[vnodeEl[CurrentRoot]] = LiveKids(CurrentRoot, 1)
  /\ (~mounted /\ nextNode > Container + 1) => childNodes[Container] = <<>>

\* ---------------------------------------------------------------------------
\* the runs made by the flush loop of signalReactive in the last operation
FlushRuns == {i \in Runs : log[i].round > 0}
\* the changed writes made by the body of run i
WritesOf(i) == {j \in InRun(i) : log[j].t = "propagated" /\ log[j].x = log[i].x}
\* the other effects reading the signal written at j by the body of run i
OtherReaders(i, j) == (Direct(log[j]) \cap Effects) \ {log[i].n}
\* effect m is in the middle of a run at event j
Running(m, j) == \E r \in Runs : log[r].n = m /\ j \in InRun(r)

Rounds == {i \in 1..Len(log) : log[i].t = "round"}
Ceilings == {i \in 1..Len(log) : log[i].t = "flushCeiling"}

EventNames == {EventName(k) : k \in OnKeys}
LiveListeners(ls, name) == {l \in ls : l.name = name}
Invoked(hs, l) == {e.current : e \in {x \in hs : x.wrapper = l.wrapper}}
\* the function-valued props of tree t that are bound to event name
FnProps(t, name) ==
  {t.props[k] : k \in {i \in 1..Len(t.props) :
                          t.props[i].kind = "handler" /\ EventName(t.props[i].key) = name}}
\* after a mount or patch: at most one listener per name; with a handler prop
\* the listener calls the handler of the current tree, without one there is
\* no listener
EventSurface(t, ls, hs) ==
  \A name \in EventNames :
    /\ Cardinality(LiveListeners(ls, name)) <= 1
    /\ IF FnProps(t, name) # {}
       THEN /\ LiveListeners(ls, name) # {}
            /\ \A l \in LiveListeners(ls, name) :
                 Invoked(hs, l) # {} /\ Invoked(hs, l) \subseteq {q.fn : q \in FnProps(t, name)}
       ELSE LiveListeners(ls, name) = {}
\* a handler prop of the old tree is still a function in the new tree
StaysFunction(old, new, name) ==
  \E q \in FnProps(old, name) : \E r \in FnProps(new, name) : q.key = r.key

\* what one mount or patch does to the listeners of the element
StableWrapperStep ==
  /\ mounted' => EventSurface(vnode'.old, listeners'[vnodeEl'[0]], eventHandlers'[vnodeEl'[0]])
  /\ (mounted /\ mounted') =>
       \A name \in EventNames :
         StaysFunction(vnode.old, vnode'.old, name) =>
           /\ vnodeEl'[0] = vnodeEl[0]
           /\ LiveListeners(listeners'[vnodeEl'[0]], name)
                = LiveListeners(listeners[vnodeEl[0]], name)

\* C31: after every mount and patch an element has at most one live listener
\* per event name; while a handler prop stays a function the listener is the
\* same wrapper, it calls the handler of the latest tree, and it is removed
\* when the prop is dropped or becomes a non-function.
C31_StableWrapper == [][StableWrapperStep]_vars

\* ---------------------------------------------------------------------------
Int32 == MinInt32..MaxInt32
\* a Derived stored a new value in the last operation
Restored(n) == Kind(prog, n) = "computed" /\ initialized[n] /\ value'[n] # value[n]

\* a get() that returned gave the value of the current sources
GetIsCurrent ==
  (lastOp.op = "get" /\ lastErr = "none") => value[lastOp.n] = Truth(Pack, lastOp.n, NN)

\* what one operation does to the versions
VersionStep ==
  /\ \A n \in Nodes : version'[n] \in Int32
  /\ \A n \in Nodes : (Changes(n) = 1 \/ Restored(n)) =>
       /\ version'[n] # version[n]
       /\ version'[n] = IF version[n] = MaxInt32 THEN MinInt32 ELSE version[n] + 1
  /\ GetIsCurrent'

\* C32: every incrementVersion gives a version that differs from the previous
\* one and lies in the signed 32-bit range (2^31 - 1 becomes -2^31); a
\* consumer that compares its snapshot with the current version still sees
\* the change after the wrap: a get() returns the value of the current sources.
C32_VersionWrap == [][VersionStep]_vars

\* the version of a wrapped past 2^31 - 1 and b, which compared it with its
\* snapshot 2^31 - 1, was recomputed
C32_Witness ==
  /\ prog = "chain" /\ lastOp.op = "get" /\ lastOp.n = 3 /\ lastErr = "none"
  /\ version[2] = MinInt32 /\ version[1] = MinInt32
  /\ \E i \in Pulls : /\ log[i].n = 3 /\ log[i].before[3] = CHECK
                       /\ log[i].snap = <<MaxInt32>> /\ Recomputes(i) # {}
  /\ value[3] = value[1] + 2

\* ---------------------------------------------------------------------------
\* 0-based positions of a that hold an old index
OldPositions(a) == {i \in 0..(Len(a) - 1) : a[i + 1] >= 0}

\* a set of positions whose entries increase strictly with the position
EntriesIncrease(a, ps) == \A i, j \in ps : i < j => a[i + 1] < a[j + 1]

\* length of the longest strictly increasing subsequence of the old indices
LongestIncreasing(a) ==
  Max({Cardinality(ps) : ps \in {q \in SUBSET OldPositions(a) : EntriesIncrease(a, q)}})

StrictlyIncreasingSeq(r) == \A k \in 1..(Len(r) - 1) : r[k] < r[k + 1]

\* C33: getSequence(arr) is a list of strictly increasing positions of arr,
\* every returned position holds a non-negative entry, the entries at the
\* returned positions increase strictly, and no longer such subsequence of
\* the non-negative entries exists.
C33_LongestIncreasing ==
  diffed =>
    /\ \A k \in 1..Len(sequence) : sequence[k] \in 0..(Len(oldIndices) - 1)
    /\ StrictlyIncreasingSeq(sequence)
    /\ \A k \in 1..Len(sequence) : oldIndices[sequence[k] + 1] >= 0
    /\ EntriesIncrease(oldIndices, SeqToSet(sequence))
    /\ Len(sequence) = LongestIncreasing(oldIndices)

\* ---------------------------------------------------------------------------
\* the Effects in the observers list of source s
EffectObservers(s) == {e \in SeqToSet(observers[s]) : Kind(prog, e) = "effect" /\ ~disposed[e]}

\* one value-changing write to a source that two or more Effects observe,
\* effects run by the default scheduler
FanOutStep ==
  (/\ mode = "primitive" /\ lastOp'.op = "set" /\ lastOp'.changed /\ lastErr' = "none"
   /\ Cardinality(Events("onWrite"))' = 1
   /\ Cardinality(EffectObservers(lastOp'.n)) >= 2) =>
     \A e \in EffectObservers(lastOp'.n) : RunCount(e)' = 1

\* C34: with the default scheduler, one value-changing write to a Source
\* observed by two or more Effects runs the body of each of them exactly
\* once: none is skipped and none runs twice.
C34_EachObserverOnce == [][FanOutStep]_vars

\* ---------------------------------------------------------------------------
\* no batch is open and no effect is pending
Quiescent == depth = 0 /\ pendingEffects = <<>> /\ ~flushing

\* the nodes e reached in its last run: its recorded sources and, through
\* the Deriveds among them, theirs
LastRunSources(e) == ObserversOf(sources, {e}, NN) \ {e}

\* the effects whose notify() was called in the last operation
Notified == UNION {SeqToSet(log[i].hooks) : i \in Propagations}

\* a value-changing set() made in a quiescent state
WakeUpStep ==
  (Quiescent /\ lastOp'.op = "set" /\ lastOp'.changed) =>
    \A e \in Effects :
      (Live(e) /\ lastOp'.n \in LastRunSources(e)) => e \in Notified'

\* C35: from every quiescent state, a value-changing write to a Source
\* schedules every non-disposed Effect that transitively depended on that
\* Source in its last run, also when an effect wrote, during its run, to a
\* Source that feeds a Derived it had already read.
C35_NoLostWakeUp == [][WakeUpStep]_vars

\* ---------------------------------------------------------------------------
\* what a read of node n would return now
CurrentValue(n) == IF Kind(prog, n) = "source" THEN value[n] ELSE Truth(Pack, n, NN)

\* the last run of e in the last operation read what its sources hold now
SawCurrent(e) ==
  LogIdx("run", e) # {} =>
    \A k \in 1..Len(log[Max(LogIdx("run", e))].seen) :
      log[Max(LogIdx("run", e))].seen[k] =
        CurrentValue(Resolve(Reads(prog, e)[k], log[Max(LogIdx("run", e))].seen))

\* C36: whenever no batch is open and no flush or effect is running, every
\* non-disposed Effect is current: the value each of its sources had when
\* its last run read it is that source's current value (an update made while
\* the Effect was running is not lost).
C36_EffectsCurrent == Quiescent => \A e \in Effects : Live(e) => SawCurrent(e)

\* ---------------------------------------------------------------------------
\* C37: whenever no batch is open and no flush or effect is running, every
\* non-disposed Effect is in state CLEAN, also after an effect body has thrown
\* and after the flush ceiling has discarded pending effects (an Effect in
\* state CHECK or DIRTY is always running or scheduled).
C37_NoStuckEffect == Quiescent => \A e \in Effects : Live(e) => state[e] = CLEAN

\* ---------------------------------------------------------------------------
\* the function called at position i of the log is the one returned by the
\* last completed run of e (was: a run before this operation returned one that
\* is still to be called) and it was not called since that run
FreshAt(lg, e, i, was) ==
  /\ ReturnedBefore(lg, e, i, was)
  /\ ~CleanupBetween(lg, e, LastRunBefore(lg, e, i), i)

\* C38: each cleanup function returned by a run of an Effect is invoked at
\* most once, whatever the order of re-runs, body exceptions and dispose()
\* calls (also dispose() from inside the body or after a run that threw).
C38_CleanupOnce ==
  [][\A e \in Effects : \A i \in IdxIn(log', "cleanup", e) :
       FreshAt(log', e, i, lastRet[e])]_vars

\* ---------------------------------------------------------------------------
\* the edges an operation added are recorded on both ends by a consumer
NoStrayEdge ==
  \A m \in Nodes : \A o \in SeqToSet(observers'[m]) \ SeqToSet(observers[m]) :
    Kind(prog, o) \in {"computed", "effect"} /\ m \in SeqToSet(sources'[o])

\* no tracking context is left behind
TrackingIdle == currentConsumer = Null /\ trackingStack = <<>>

\* C39: after every top-level get(), set(), batch(), effect creation or
\* disposal, ended normally or by an exception of a Derived function or an
\* Effect body (circular dependency, nested effects, untracked sections), the
\* current consumer is null and the tracking stack is empty; a later read
\* outside any consumer registers no edge.
C39_TrackingRestored == [][TrackingIdle' /\ NoStrayEdge]_vars

\* the inner effect, created by the running outer body, threw
C39_Witness ==
  /\ prog = "nested" /\ lastErr = "bodyError" /\ TrackingIdle
  /\ \E i \in LogIdx("run", 6) : \E j \in LogIdx("run", 5) :
       i < j /\ log[i].x > log[j].x /\ Len(log[j].seen) = 2

\* ---------------------------------------------------------------------------
\* the calls of the k-th subscriber of source s in the last operation, in order
CallsOfSubscriber(s, k) ==
  SelectSeq(log, LAMBDA ev : ev.t = "subscriber" /\ ev.n = s /\ ev.seen[2] = k)

\* no two calls in a row carry equal values
NoRepeat(calls) ==
  \A m \in 1..(Len(calls) - 1) : ~Equals("is", calls[m].seen[1], calls[m + 1].seen[1])

\* C40: for any sequence of set() calls on an Observable Value, re-entrant
\* sets made by subscribers during a notification and sets made from the
\* onWrite hook included, no subscriber is invoked twice in a row with values
\* that are equal under the equality predicate.
C40_NoDuplicateNotification ==
  \A s \in Sources : \A k \in 1..Len(Subscribers(prog, s)) :
    NoRepeat(CallsOfSubscriber(s, k))

====
